---- MODULE Spec2Model ----
(***************************************************************************)
(* A model of the distributed octree construction of tree/src/tree.rs and  *)
(* tree/src/morton.rs: Morton keys, the leaf aggregator, the sample sort,  *)
(* the blocktree builder, the load balancer and the block splitter, run by *)
(* `size` ranks that exchange messages over FIFO channels.                 *)
(***************************************************************************)
EXTENDS Integers, Sequences, FiniteSets, TLC

(***************************************************************************)
(* Bounds of the model.                                                    *)
(***************************************************************************)
\* The tree depth every rank is called with.
depth == 2
\* The maximum number of points per leaf every rank is called with.
ncrit == 2
\* The largest number of ranks of the driver, sort and blocktree runs.
MaxRanks == 2
\* The number of ranks of the sort runs with one point on each rank, and the
\* largest of the runs of transfer_leaves_to_coarse_blocktree on its own.
MaxRanksSort == 3
\* The largest number of ranks of the load-balancing runs.
MaxRanksLB == 3
\* The largest number of input points over all ranks.
MaxPoints == 3
\* The longest leaf list handed to unique_leaves and to split_blocks.
MaxLen == 3
\* The largest npoints of an input leaf.
MaxNp == 3
\* The most leaves of one block of the load-balancing runs.
MaxWeight == 2
\* The most leaves over all blocks of the load-balancing runs.
MaxLeavesLB == 3

(***************************************************************************)
(* Program constants.                                                      *)
(***************************************************************************)
\* tree.rs: const K, the sample density of the sample sort.
K == 10
\* morton.rs: const SENTINEL.
SENTINEL == 999

Range(s) == {s[i] : i \in DOMAIN s}

RECURSIVE Pow2(_)
Pow2(n) == IF n = 0 THEN 1 ELSE 2 * Pow2(n - 1)

\* The bitwise exclusive or of two naturals (Rust's ^ on u64).
RECURSIVE XOR(_, _)
XOR(x, y) ==
    IF x = 0 THEN y
    ELSE IF y = 0 THEN x
    ELSE (((x % 2) + (y % 2)) % 2) + 2 * XOR(x \div 2, y \div 2)

(***************************************************************************)
(* morton.rs: keys are <<anchor x, anchor y, anchor z, level>>.            *)
(***************************************************************************)
Key_default == <<SENTINEL, SENTINEL, SENTINEL, 0>>

equal(a, b) == a[1] = b[1] /\ a[2] = b[2] /\ a[3] = b[3] /\ a[4] = b[4]

\* A test that looks at the values and not at their highest set bits.
most_significant_bit_value(x, y) == x < y

most_significant_bit(x, y) == (x < y) /\ (x < XOR(x, y))

\* A comparison that takes keys of one anchor for unordered.
less_than_anchors_only(a, b) ==
    IF a[1] = b[1] /\ a[2] = b[2] /\ a[3] = b[3]
    THEN FALSE
    ELSE LET x == <<XOR(a[1], b[1]), XOR(a[2], b[2]), XOR(a[3], b[3])>>
             argmax1 == IF most_significant_bit(x[1], x[2]) THEN 2 ELSE 1
             argmax == IF most_significant_bit(x[argmax1], x[3]) THEN 3 ELSE argmax1
         IN  a[argmax] < b[argmax]

\* A comparison that puts the finer of two keys of one anchor first.
less_than_finer_first(a, b) ==
    IF a[1] = b[1] /\ a[2] = b[2] /\ a[3] = b[3]
    THEN a[4] > b[4]
    ELSE LET x == <<XOR(a[1], b[1]), XOR(a[2], b[2]), XOR(a[3], b[3])>>
             argmax1 == IF most_significant_bit(x[1], x[2]) THEN 2 ELSE 1
             argmax == IF most_significant_bit(x[argmax1], x[3]) THEN 3 ELSE argmax1
         IN  a[argmax] < b[argmax]

less_than(a, b) ==
    IF a[1] = b[1] /\ a[2] = b[2] /\ a[3] = b[3]
    THEN a[4] < b[4]
    ELSE LET x == <<XOR(a[1], b[1]), XOR(a[2], b[2]), XOR(a[3], b[3])>>
             argmax1 == IF most_significant_bit(x[1], x[2]) THEN 2 ELSE 1
             argmax == IF most_significant_bit(x[argmax1], x[3]) THEN 3 ELSE argmax1
         IN  a[argmax] < b[argmax]

\* impl Ord for Key: Equal when equal, else Less or Greater by less_than.
KeyLeq(a, b) == equal(a, b) \/ less_than(a, b)

\* 1 << n for n = depth - level computed in u64.  For a level above depth a
\* release build wraps the subtraction to 2^64 - 1 and takes the shift count
\* modulo 64, which gives 2^63; a debug build panics, which the actions that
\* reach this case model.  TLC's integers have 32 bits, so 2^30 stands for 2^63
\* here: either lies far above every anchor of the tree.
ShiftLeft(n) == IF n >= 0 THEN Pow2(n) ELSE Pow2(30)

odd_index(idx, parent_level_diff) == (idx % ShiftLeft(parent_level_diff)) # 0

\* A parent that keeps the anchor of its child.
find_parent_keep_anchor(key) ==
    IF key[4] = 0 THEN key ELSE <<key[1], key[2], key[3], key[4] - 1>>

find_parent(key) ==
    IF key[1] = 0 /\ key[2] = 0 /\ key[3] = 0
    THEN IF key[4] = 0 THEN <<0, 0, 0, 0>> ELSE <<0, 0, 0, key[4] - 1>>
    ELSE LET level_diff == depth - key[4]
             shift == ShiftLeft(level_diff)
             parent_level_diff == depth - (key[4] - 1)
             px == IF odd_index(key[1], parent_level_diff) THEN key[1] - shift ELSE key[1]
             py == IF odd_index(key[2], parent_level_diff) THEN key[2] - shift ELSE key[2]
             pz == IF odd_index(key[3], parent_level_diff) THEN key[3] - shift ELSE key[3]
         IN  <<px, py, pz, key[4] - 1>>

\* The eight siblings of a key, in the order of the i, j, k loops.
find_siblings(key) ==
    LET parent == find_parent(key)
        first_child == <<parent[1], parent[2], parent[3], parent[4] + 1>>
        shift == ShiftLeft(depth - key[4])
    IN  [n \in 1..8 |->
            LET i == (n - 1) \div 4
                j == ((n - 1) \div 2) % 2
                k == (n - 1) % 2
            IN  <<first_child[1] + shift * i, first_child[2] + shift * j,
                  first_child[3] + shift * k, first_child[4]>>]

find_children(key) == find_siblings(<<key[1], key[2], key[3], key[4] + 1>>)

RECURSIVE AncestorsFrom(_)
AncestorsFrom(parent) ==
    IF parent = <<0, 0, 0, 0>> THEN <<parent>>
    ELSE <<parent>> \o AncestorsFrom(find_parent(parent))

\* The ancestors of a key with the key itself.
find_ancestors_with_self(key) == <<key>> \o AncestorsFrom(find_parent(key))

\* The ancestors of a key from its parent up to the root, the key excluded.
find_ancestors(key) == AncestorsFrom(find_parent(key))

\* Iterator::max and Iterator::min under Key's Ord.
KeyMax(S) == CHOOSE m \in S : \A o \in S : KeyLeq(o, m)
KeyMin(S) == CHOOSE m \in S : \A o \in S : KeyLeq(m, o)

\* The least, not the greatest, of the common ancestors.
find_coarsest_common_ancestor(a, b) ==
    KeyMin(Range(find_ancestors(a)) \cap Range(find_ancestors(b)))

find_finest_common_ancestor(a, b) ==
    KeyMax(Range(find_ancestors(a)) \cap Range(find_ancestors(b)))

find_deepest_first_descendent(key) ==
    IF key[4] < depth THEN <<key[1], key[2], key[3], depth>> ELSE key

RECURSIVE DldLoop(_, _)
DldLoop(dld, level_diff) ==
    IF level_diff > 1
    THEN DldLoop(KeyMax(Range(find_children(dld))), level_diff - 1)
    ELSE dld

\* The last child, one level down only.
find_last_child(key) ==
    IF key[4] < depth THEN KeyMax(Range(find_children(key))) ELSE key

find_deepest_last_descendent(key) ==
    IF key[4] < depth
    THEN DldLoop(KeyMax(Range(find_children(key))), depth - key[4])
    ELSE key

(***************************************************************************)
(* slice::sort, a stable merge sort: of two equal elements the one that    *)
(* came first stays first.  Keys are compared by themselves, leaves and    *)
(* points by their key.                                                    *)
(***************************************************************************)
SelfKey(k) == k
FieldKey(l) == l.key

RECURSIVE MergeKeys(_, _)
MergeKeys(a, b) ==
    IF Len(a) = 0 THEN b
    ELSE IF Len(b) = 0 THEN a
    ELSE IF less_than(b[1], a[1]) THEN <<b[1]>> \o MergeKeys(a, Tail(b))
    ELSE <<a[1]>> \o MergeKeys(Tail(a), b)

RECURSIVE SortKeys(_)
SortKeys(s) ==
    IF Len(s) <= 1 THEN s
    ELSE LET h == Len(s) \div 2
         IN  MergeKeys(SortKeys(SubSeq(s, 1, h)), SortKeys(SubSeq(s, h + 1, Len(s))))

RECURSIVE MergeByKey(_, _)
MergeByKey(a, b) ==
    IF Len(a) = 0 THEN b
    ELSE IF Len(b) = 0 THEN a
    ELSE IF less_than(b[1].key, a[1].key) THEN <<b[1]>> \o MergeByKey(a, Tail(b))
    ELSE <<a[1]>> \o MergeByKey(Tail(a), b)

RECURSIVE SortByKey(_)
SortByKey(s) ==
    IF Len(s) <= 1 THEN s
    ELSE LET h == Len(s) \div 2
         IN  MergeByKey(SortByKey(SubSeq(s, 1, h)), SortByKey(SubSeq(s, h + 1, Len(s))))

SortLeaves(s) == SortByKey(s)
SortPoints(s) == SortByKey(s)

\* A set of keys as a sorted vector (collect() of a HashSet, then sort()).
RECURSIVE SetToSeq(_)
SetToSeq(S) ==
    IF S = {} THEN <<>>
    ELSE LET k == CHOOSE k \in S : TRUE IN <<k>> \o SetToSeq(S \ {k})

SetToSortedKeys(S) == SortKeys(SetToSeq(S))

IsSortedLeaves(s) ==
    \A i \in 1..(Len(s) - 1) : KeyLeq(s[i].key, s[i + 1].key)

(***************************************************************************)
(* morton.rs: leaves and points.                                           *)
(***************************************************************************)
Leaf(key, block, npoints) == [key |-> key, block |-> block, npoints |-> npoints]

\* A point: its coordinates in units of r0 / 2^depth from the corner x0 - r0
\* of the domain, and its key.
Point(x, y, z) == [x |-> x, y |-> y, z |-> z, key |-> Key_default]

\* An encoding that rounds to the nearest cell corner instead of down.
encode_point_rounded(point) ==
    [point EXCEPT !.key = <<(point.x + 1) \div 2, (point.y + 1) \div 2,
                            (point.z + 1) \div 2, depth>>]

\* encode_point with level = depth: side_length is (r0 * 2) / 2^depth, two units.
encode_point(point) ==
    [point EXCEPT !.key = <<point.x \div 2, point.y \div 2, point.z \div 2, depth>>]

encode_points(pts) == [i \in DOMAIN pts |-> encode_point(pts[i])]

\* keys_to_leaves: the points sorted by key (in place), and one leaf for each
\* run of equal keys.
keys_to_leaves_points(pts) == SortPoints(pts)

\* One leaf of one point for every key, however many points share it.
keys_to_leaves_one_point(pts) ==
    LET ps == keys_to_leaves_points(pts)
        starts == {i \in 1..Len(ps) : i = 1 \/ ps[i - 1].key # ps[i].key}
    IN  [n \in 1..Cardinality(starts) |->
            Leaf(ps[CHOOSE i \in starts : Cardinality({j \in starts : j < i}) = n - 1].key,
                 Key_default, 1)]

keys_to_leaves(pts) ==
    LET ps == keys_to_leaves_points(pts)
        curr(i) == IF i = 1 THEN Key_default ELSE ps[i - 1].key
        starts == {i \in 1..Len(ps) : ~equal(curr(i), ps[i].key)}
        nth(n) == CHOOSE i \in starts : Cardinality({j \in starts : j < i}) = n - 1
        key_indices == [n \in 1..(Cardinality(starts) + 1) |->
                           IF n <= Cardinality(starts) THEN nth(n) ELSE Len(ps) + 1]
    IN  [n \in 1..Cardinality(starts) |->
            Leaf(ps[key_indices[n]].key, Key_default,
                 key_indices[n + 1] - key_indices[n])]

(***************************************************************************)
(* tree.rs: unique_leaves.  The result is [panic, unique]: panic when the  *)
(* list is empty (leaves[0]) or a merge exceeds ncrit.                     *)
(***************************************************************************)
RECURSIVE UniqueScan(_, _, _, _)
UniqueScan(leaves, i, curr, unique) ==
    IF i > Len(leaves) THEN [panic |-> FALSE, unique |-> unique]
    ELSE LET leaf == leaves[i]
             curr_idx == Len(unique)
         IN  IF ~equal(curr.key, leaf.key)
             THEN UniqueScan(leaves, i + 1, leaf, Append(unique, curr))
             ELSE LET n == unique[curr_idx].npoints + leaf.npoints
                  IN  IF n <= ncrit
                      THEN UniqueScan(leaves, i + 1, curr,
                                      [unique EXCEPT ![curr_idx].npoints = n])
                      ELSE [panic |-> TRUE, unique |-> <<>>]

unique_leaves(leaves0, is_sorted) ==
    LET leaves == IF is_sorted THEN leaves0 ELSE SortLeaves(leaves0)
    IN  IF Len(leaves) = 0 THEN [panic |-> TRUE, unique |-> <<>>]
        ELSE UniqueScan(leaves, 2, leaves[1], <<leaves[1]>>)

(***************************************************************************)
(* tree.rs: complete_region, find_seeds, complete_blocktree.               *)
(***************************************************************************)
\* A loop that keeps every key between a and b, the ancestors of b too, and
\* refines nothing.
RegionLoop_keep_ancestors(a, b, working_list) ==
    {w \in working_list : less_than(a, w) /\ less_than(w, b)}

\* One pass over the children of the finest common ancestor, nothing refined.
complete_region_one_pass(a, b) ==
    SetToSortedKeys(
        {w \in Range(find_children(find_finest_common_ancestor(a, b))) :
            less_than(a, w) /\ less_than(w, b)
            /\ w \notin Range(find_ancestors(b))})

\* The loop of complete_region over the working list, until every key of the
\* list is kept.
RECURSIVE RegionLoop(_, _, _)
RegionLoop(a, b, working_list) ==
    LET ancestors_a == Range(find_ancestors(a))
        ancestors_b == Range(find_ancestors(b))
        kept == {w \in working_list :
                    less_than(a, w) /\ less_than(w, b) /\ w \notin ancestors_b}
        split == {w \in working_list \ kept : w \in ancestors_a \/ w \in ancestors_b}
        aux_list == kept \cup UNION {Range(find_children(w)) : w \in split}
    IN  IF Cardinality(kept) = Cardinality(working_list) THEN aux_list
        ELSE RegionLoop(a, b, aux_list)

\* The region with every returned key above level depth replaced by its
\* eight children.
complete_region_refined(a, b) ==
    SetToSortedKeys(
        UNION {IF w[4] < depth THEN Range(find_children(w)) ELSE {w} :
                   w \in RegionLoop(a, b,
                                    Range(find_children(find_finest_common_ancestor(a, b))))})

complete_region(a, b) ==
    SetToSortedKeys(
        RegionLoop(a, b, Range(find_children(find_finest_common_ancestor(a, b)))))

\* Seeds taken from the completed region alone, the least and the greatest
\* leaf key left out.
find_seeds_region_only(leaves) ==
    LET min == KeyMin({leaves[i].key : i \in DOMAIN leaves})
        max == KeyMax({leaves[i].key : i \in DOMAIN leaves})
        complete == complete_region(min, max)
        levels == {complete[i][4] : i \in DOMAIN complete} \cup {depth}
        coarsest_level == CHOOSE l \in levels : \A m \in levels : l <= m
        IsSeed(node) == node[4] = coarsest_level
    IN  SelectSeq(complete, IsSeed)

find_seeds(leaves) ==
    LET min == KeyMin({leaves[i].key : i \in DOMAIN leaves})
        max == KeyMax({leaves[i].key : i \in DOMAIN leaves})
        complete == complete_region(min, max) \o <<min, max>>
        levels == {complete[i][4] : i \in DOMAIN complete} \cup {depth}
        coarsest_level == CHOOSE l \in levels : \A m \in levels : l <= m
        IsSeed(node) == node[4] = coarsest_level
    IN  SelectSeq(complete, IsSeed)

\* Seeds that are left as find_seeds gave them.
complete_blocktree_seeds_unextended(seeds0, rank, nranks) == seeds0

\* complete_blocktree up to its send: the seeds of the first and the last rank
\* are extended towards the corners of the domain.
complete_blocktree_seeds(seeds0, rank, nranks) ==
    LET root == <<0, 0, 0, 0>>
        s1 == IF rank = 0
              THEN LET dfd_root == find_deepest_first_descendent(root)
                       min == KeyMin(Range(seeds0))
                       na == find_finest_common_ancestor(dfd_root, min)
                       first_child == <<na[1], na[2], na[3], na[4] + 1>>
                   IN  SortKeys(Append(seeds0, first_child))
              ELSE seeds0
    IN  IF rank = nranks - 1
        THEN LET dld_root == find_deepest_last_descendent(root)
                 max == KeyMax(Range(s1))
                 na == find_finest_common_ancestor(dld_root, max)
                 last_child == KeyMax(Range(find_children(na)))
             IN  Append(s1, last_child)
        ELSE s1

\* complete_blocktree after its receive: the regions between consecutive seeds.
RECURSIVE BlocktreeLoop(_, _)
BlocktreeLoop(sds, i) ==
    IF i > Len(sds) - 1 THEN <<>>
    ELSE <<sds[i]>> \o complete_region(sds[i], sds[i + 1]) \o BlocktreeLoop(sds, i + 1)

complete_blocktree_local(sds, rank, nranks) ==
    SortKeys(BlocktreeLoop(sds, 1)
             \o (IF rank = nranks - 1 THEN <<sds[Len(sds)]>> ELSE <<>>))

(***************************************************************************)
(* tree.rs: assign_blocks_to_leaves, find_block_weights.                   *)
(***************************************************************************)
\* An assignment that gives every leaf with a block its own key as the block.
AssignOne_own_key(leaf, blocktree) ==
    IF \E b \in Range(blocktree) : b = leaf.key \/ b \in Range(find_ancestors(leaf.key))
    THEN [leaf EXCEPT !.block = leaf.key]
    ELSE leaf

\* The walk over one leaf's ancestors, fine to coarse: the first ancestor in
\* the blocktree, or the leaf's own key when the blocktree holds it.
AssignOne(leaf, blocktree) ==
    LET ancestors == find_ancestors(leaf.key)
        set == Range(blocktree)
        hits == {i \in DOMAIN ancestors : ancestors[i] \in set \/ leaf.key \in set}
    IN  IF hits = {} THEN leaf
        ELSE LET i == CHOOSE h \in hits : \A g \in hits : h <= g
             IN  [leaf EXCEPT !.block = IF ancestors[i] \in set THEN ancestors[i]
                                        ELSE leaf.key]

assign_blocks_to_leaves(leaves, blocktree) ==
    [i \in DOMAIN leaves |-> AssignOne(leaves[i], blocktree)]

find_block_weights(leaves, blocktree) ==
    [i \in DOMAIN blocktree |->
        Cardinality({j \in DOMAIN leaves : leaves[j].block = blocktree[i]})]

(***************************************************************************)
(* The state: `size` ranks 0..size-1, each with the driver's buffers.      *)
(***************************************************************************)
VARIABLES
    size,             \* the number of ranks (world.size())
    sorted,           \* the `sorted` argument of unique_leaves
    build,            \* "debug" (overflow checks panic) or "release" (they wrap)
    pc,               \* each rank's place in the driver
    round,            \* each rank's r of the exchange loops of sample_sort
    nrecv,            \* each rank's received messages in the running loop
    input,            \* each rank's points as the caller passed them
    points,           \* each rank's points
    local_leaves,     \* each rank's local_leaves
    local_samples,    \* each rank's send buffer of the all_gather
    buckets,          \* each rank's leaf buckets, one per destination
    buckets_points,   \* each rank's point buckets, one per destination
    received_leaves,  \* each rank's received_leaves buffer
    received_points,  \* each rank's received_points buffer
    chan,             \* chan[src][dst]: the messages sent and not yet received
    seeds,            \* each rank's seeds
    local_blocktree,  \* each rank's local_blocktree
    weights,          \* each rank's block weights
    q,                \* each rank's blocks given away by block_partition
    received_blocks,  \* each rank's received_blocks of block_partition
    msg,              \* each rank's msg of transfer_leaves_to_final_blocktree
    blocks,           \* each rank's map of split_blocks, block key -> leaves
    to_split,         \* each rank's keys left to split in the running pass
    niter,            \* each rank's passes of split_blocks that split a block
    args,             \* the keys given to a function of morton.rs called on its own
    ret               \* what that function returned

vars == <<size, sorted, build, pc, round, nrecv, input, points, local_leaves,
          local_samples, buckets, buckets_points, received_leaves,
          received_points, chan, seeds, local_blocktree, weights, q,
          received_blocks, msg, blocks, to_split, niter, args, ret>>

Ranks == 0..(size - 1)

\* A message: the type of its elements and the vector sent.
Msg(ty, data) == [ty |-> ty, data |-> data]

(***************************************************************************)
(* unbalanced_tree, step 3: unique_leaves(local_leaves, ncrit, true).      *)
(***************************************************************************)
UniqueLeaves(r) ==
    /\ pc[r] = "unique_leaves"
    /\ LET res == unique_leaves(received_leaves[r], sorted)
       IN  IF res.panic
           THEN /\ pc' = [pc EXCEPT ![r] = "panic"]
                /\ UNCHANGED <<local_leaves, points>>
           ELSE /\ pc' = [pc EXCEPT ![r] = "find_seeds"]
                /\ local_leaves' = [local_leaves EXCEPT ![r] = res.unique]
                /\ points' = [points EXCEPT ![r] = received_points[r]]
    /\ UNCHANGED <<size, sorted, build, round, nrecv, input, local_samples,
                   buckets, buckets_points, received_leaves, received_points,
                   chan, seeds, local_blocktree, weights, q, received_blocks, msg, blocks, to_split,
                   niter, args, ret>>

(***************************************************************************)
(* unique_leaves on its own: every list of at most MaxLen leaves over      *)
(* three keys, declared sorted only when it is.                            *)
(***************************************************************************)
LeafKeyChoice == {<<0, 0, 0, depth>>, <<1, 0, 0, depth>>, <<3, 3, 3, depth>>}

LeafChoice == {Leaf(k, Key_default, n) : k \in LeafKeyChoice, n \in 1..MaxNp}

SeqsUpTo(S, n) == UNION {[1..m -> S] : m \in 0..n}

InitUL ==
    /\ size = 1
    /\ build = "release"
    /\ pc = [r \in {0} |-> "unique_leaves"]
    /\ round = [r \in {0} |-> 0]
    /\ nrecv = [r \in {0} |-> 0]
    /\ input = [r \in {0} |-> <<>>]
    /\ points = [r \in {0} |-> <<>>]
    /\ local_leaves = [r \in {0} |-> <<>>]
    /\ local_samples = [r \in {0} |-> <<>>]
    /\ buckets = [r \in {0} |-> <<>>]
    /\ buckets_points = [r \in {0} |-> <<>>]
    /\ received_leaves \in [{0} -> SeqsUpTo(LeafChoice, MaxLen)]
    /\ sorted \in {b \in BOOLEAN : b => IsSortedLeaves(received_leaves[0])}
    /\ received_points = [r \in {0} |-> <<>>]
    /\ chan = [s \in {0} |-> [d \in {0} |-> <<>>]]
    /\ seeds = [r \in {0} |-> <<>>]
    /\ local_blocktree = [r \in {0} |-> <<>>]
    /\ weights = [r \in {0} |-> <<>>]
    /\ q = [r \in {0} |-> <<>>]
    /\ received_blocks = [r \in {0} |-> <<>>]
    /\ msg = [r \in {0} |-> <<>>]
    /\ blocks = [r \in {0} |-> <<>>]
    /\ to_split = [r \in {0} |-> {}]
    /\ niter = [r \in {0} |-> 0]
    /\ args = <<>>
    /\ ret = <<>>

NextUL == \E r \in Ranks : UniqueLeaves(r)

SpecUL == InitUL /\ [][NextUL]_vars

\* Sums and counts over a list of leaves.
RECURSIVE SumNpoints(_)
SumNpoints(leaves) ==
    IF Len(leaves) = 0 THEN 0
    ELSE leaves[1].npoints + SumNpoints(Tail(leaves))

LeafKeys(leaves) == {leaves[i].key : i \in DOMAIN leaves}

WithKey(leaves, k) == SelectSeq(leaves, LAMBDA l : l.key = k)

\* unique_leaves has returned on rank r.
UniqueReturned(r) == pc[r] = "find_seeds"

\* C9: whenever unique_leaves returns, no two leaves of its output have the
\* same key and every output leaf has npoints <= ncrit.
C9_UniqueKeysWithinNcrit ==
    UniqueReturned(0) =>
        /\ \A i, j \in DOMAIN local_leaves[0] :
               local_leaves[0][i].key = local_leaves[0][j].key => i = j
        /\ \A i \in DOMAIN local_leaves[0] : local_leaves[0][i].npoints <= ncrit

\* C10: whenever unique_leaves returns, the npoints of its output sum to those
\* of its input, the output has the keys of the input, and the leaves of one
\* key are merged into one leaf with the sum of their npoints.
C10_UniqueConservation ==
    UniqueReturned(0) =>
        /\ SumNpoints(local_leaves[0]) = SumNpoints(received_leaves[0])
        /\ LeafKeys(local_leaves[0]) = LeafKeys(received_leaves[0])
        /\ \A k \in LeafKeys(received_leaves[0]) :
               /\ Len(WithKey(local_leaves[0], k)) = 1
               /\ SumNpoints(WithKey(local_leaves[0], k))
                      = SumNpoints(WithKey(received_leaves[0], k))

(***************************************************************************)
(* tree.rs: split_blocks.  The map `blocks` is a function from the block   *)
(* keys it holds to their leaves; the empty map is <<>>.                   *)
(***************************************************************************)
MapPush(m, k, leaf) ==
    IF k \in DOMAIN m THEN [m EXCEPT ![k] = Append(@, leaf)]
    ELSE [j \in DOMAIN m \cup {k} |-> IF j = k THEN <<leaf>> ELSE m[j]]

\* A removal that leaves the key in the map with no leaves.
MapRemove_clear(m, k) == [m EXCEPT ![k] = <<>>]

MapRemove(m, k) == [j \in DOMAIN m \ {k} |-> m[j]]

\* blocks.entry(leaf.block).or_default().push(leaf) for every leaf in turn.
RECURSIVE MapPushAll(_, _)
MapPushAll(m, leaves) ==
    IF Len(leaves) = 0 THEN m
    ELSE MapPushAll(MapPush(m, leaves[1].block, leaves[1]), Tail(leaves))

\* A scan that lets a block of ncrit + 1 points through.
ExceedsNcritPlusOne(leaves) ==
    \E n \in 1..Len(leaves) : SumNpoints(SubSeq(leaves, 1, n)) > ncrit + 1

\* The inner loop of the scan: the running sum of npoints exceeds ncrit.
ExceedsNcrit(leaves) ==
    \E n \in 1..Len(leaves) : SumNpoints(SubSeq(leaves, 1, n)) > ncrit

SplitBlocksInit(r) ==
    /\ pc[r] = "split_blocks"
    /\ blocks' = [blocks EXCEPT ![r] = MapPushAll(<<>>, local_leaves[r])]
    /\ niter' = [niter EXCEPT ![r] = 0]
    /\ pc' = [pc EXCEPT ![r] = "split_scan"]
    /\ UNCHANGED <<size, sorted, build, round, nrecv, input, points,
                   local_leaves, local_samples, buckets, buckets_points,
                   received_leaves, received_points, chan, seeds,
                   local_blocktree, weights, q, received_blocks, msg, to_split,
                   args, ret>>

\* One pass of the loop up to `if to_split.len() > 0`: the keys to split, or
\* the return of the map.  niter counts the passes that split, up to depth + 1.
SplitBlocksScan(r) ==
    /\ pc[r] = "split_scan"
    /\ LET keys == {key \in DOMAIN blocks[r] : ExceedsNcrit(blocks[r][key])}
       IN  IF keys = {}
           THEN /\ pc' = [pc EXCEPT ![r] = "done"]
                /\ UNCHANGED <<to_split, niter>>
           ELSE /\ pc' = [pc EXCEPT ![r] = "split_keys"]
                /\ to_split' = [to_split EXCEPT ![r] = keys]
                /\ niter' = [niter EXCEPT ![r] = IF @ <= depth THEN @ + 1 ELSE @]
    /\ UNCHANGED <<size, sorted, build, round, nrecv, input, points,
                   local_leaves, local_samples, buckets, buckets_points,
                   received_leaves, received_points, chan, seeds,
                   local_blocktree, weights, q, received_blocks, msg, blocks,
                   args, ret>>

\* The body of `for &key in to_split.iter()` for one key; the keys come in the
\* order of the hash map, which is any order.
SplitBlocksKey(r, key) ==
    /\ pc[r] = "split_keys"
    /\ key \in to_split[r]
    /\ IF key[4] >= depth /\ build = "debug"
       THEN \* find_siblings: `depth - key.3` overflows and panics
            /\ pc' = [pc EXCEPT ![r] = "panic"]
            /\ UNCHANGED <<blocks, to_split>>
       ELSE LET leaves == assign_blocks_to_leaves(blocks[r][key], find_children(key))
            IN  /\ blocks' = [blocks EXCEPT ![r] = MapPushAll(MapRemove(@, key), leaves)]
                /\ to_split' = [to_split EXCEPT ![r] = @ \ {key}]
                /\ pc' = [pc EXCEPT ![r] = IF to_split[r] = {key} THEN "split_scan"
                                           ELSE "split_keys"]
    /\ UNCHANGED <<size, sorted, build, round, nrecv, input, points,
                   local_leaves, local_samples, buckets, buckets_points,
                   received_leaves, received_points, chan, seeds,
                   local_blocktree, weights, q, received_blocks, msg, niter,
                   args, ret>>

(***************************************************************************)
(* split_blocks on its own: leaves of distinct keys in key order, each     *)
(* with an ancestor or itself as its block, under both builds.             *)
(***************************************************************************)
\* The ancestor-or-self of a key at a level.
AncestorAt(key, level) ==
    IF level = key[4] THEN key
    ELSE LET a == find_ancestors(key) IN a[key[4] - level]

SplitLeafChoice ==
    {Leaf(k, AncestorAt(k, l), n) : k \in LeafKeyChoice, l \in 0..depth, n \in 1..MaxNp}

InitSplit ==
    /\ size = 1
    /\ sorted = TRUE
    /\ build \in {"debug", "release"}
    /\ pc = [r \in {0} |-> "split_blocks"]
    /\ round = [r \in {0} |-> 0]
    /\ nrecv = [r \in {0} |-> 0]
    /\ input = [r \in {0} |-> <<>>]
    /\ points = [r \in {0} |-> <<>>]
    /\ local_leaves \in [{0} -> {s \in SeqsUpTo(SplitLeafChoice, MaxLen) :
                              \A i \in 1..(Len(s) - 1) : less_than(s[i].key, s[i + 1].key)}]
    /\ local_samples = [r \in {0} |-> <<>>]
    /\ buckets = [r \in {0} |-> <<>>]
    /\ buckets_points = [r \in {0} |-> <<>>]
    /\ received_leaves = [r \in {0} |-> <<>>]
    /\ received_points = [r \in {0} |-> <<>>]
    /\ chan = [s \in {0} |-> [d \in {0} |-> <<>>]]
    /\ seeds = [r \in {0} |-> <<>>]
    /\ local_blocktree = [r \in {0} |-> <<>>]
    /\ weights = [r \in {0} |-> <<>>]
    /\ q = [r \in {0} |-> <<>>]
    /\ received_blocks = [r \in {0} |-> <<>>]
    /\ msg = [r \in {0} |-> <<>>]
    /\ blocks = [r \in {0} |-> <<>>]
    /\ to_split = [r \in {0} |-> {}]
    /\ niter = [r \in {0} |-> 0]
    /\ args = <<>>
    /\ ret = <<>>

NextSplit ==
    \/ \E r \in Ranks : SplitBlocksInit(r)
    \/ \E r \in Ranks : SplitBlocksScan(r)
    \/ \E r \in Ranks : \E key \in to_split[r] : SplitBlocksKey(r, key)

SpecSplit == InitSplit /\ [][NextSplit]_vars

\* split_blocks has returned its map on rank r.
SplitReturned(r) == pc[r] = "done"

\* The coarsest block level among the leaves handed to split_blocks.
MinBlockLevel(leaves) ==
    LET levels == {leaves[i].block[4] : i \in DOMAIN leaves}
    IN  CHOOSE l \in levels : \A m \in levels : l <= m

\* C7: in the map split_blocks returns, every block has at most ncrit points
\* in its leaves or is at level depth.
C7_SplitBound ==
    SplitReturned(0) =>
        \A key \in DOMAIN blocks[0] :
            SumNpoints(blocks[0][key]) <= ncrit \/ key[4] = depth

\* C7 witness: split_blocks returned after splitting down to a block of level
\* depth.
C7_Witness ==
    /\ SplitReturned(0)
    /\ niter[0] >= 1
    /\ \E key \in DOMAIN blocks[0] : key[4] = depth /\ Len(blocks[0][key]) >= 1

\* C8: the loop of split_blocks splits in at most depth - min(block.level)
\* passes: a block at level depth is never split again.
C8_SplitTermination ==
    local_leaves[0] # <<>> =>
        niter[0] <= depth - MinBlockLevel(local_leaves[0])

(***************************************************************************)
(* unbalanced_tree, step 1: encode_points.                                 *)
(***************************************************************************)
EncodePoints(r) ==
    /\ pc[r] = "encode_points"
    /\ points' = [points EXCEPT ![r] = encode_points(input[r])]
    /\ pc' = [pc EXCEPT ![r] = "sample_sort"]
    /\ UNCHANGED <<size, sorted, build, round, nrecv, input, local_leaves,
                   local_samples, buckets, buckets_points, received_leaves,
                   received_points, chan, seeds, local_blocktree, weights, q, received_blocks, msg,
                   blocks, to_split, niter, args, ret>>

(***************************************************************************)
(* tree.rs: sample_sort.                                                   *)
(***************************************************************************)
\* A vector of K samples that takes counts[i] times the i-th leaf.  The order
\* of the samples in the vector is immaterial: received_samples is sorted
\* before the splitters are read from it.
RECURSIVE Repeat(_, _)
Repeat(x, n) == IF n = 0 THEN <<>> ELSE <<x>> \o Repeat(x, n - 1)

RECURSIVE SamplesOf(_, _, _)
SamplesOf(leaves, counts, i) ==
    IF i > Len(leaves) THEN <<>>
    ELSE Repeat(leaves[i], counts[i]) \o SamplesOf(leaves, counts, i + 1)

RECURSIVE SumSeq(_)
SumSeq(s) == IF Len(s) = 0 THEN 0 ELSE s[1] + SumSeq(Tail(s))

SampleCounts(nleaves) == {c \in [1..nleaves -> 0..K] : SumSeq(c) = K}

\* keys_to_leaves and the draw of the K samples; gen_range panics on an empty
\* range when the rank has no leaf.
Sample(r) ==
    /\ pc[r] = "sample_sort"
    /\ LET leaves == keys_to_leaves(points[r])
       IN  /\ points' = [points EXCEPT ![r] = keys_to_leaves_points(points[r])]
           /\ local_leaves' = [local_leaves EXCEPT ![r] = leaves]
           /\ IF Len(leaves) = 0
              THEN /\ pc' = [pc EXCEPT ![r] = "panic"]
                   /\ UNCHANGED local_samples
              ELSE /\ pc' = [pc EXCEPT ![r] = "all_gather"]
                   /\ \E counts \in SampleCounts(Len(leaves)) :
                          local_samples' = [local_samples EXCEPT
                                                ![r] = SamplesOf(leaves, counts, 1)]
    /\ UNCHANGED <<size, sorted, build, round, nrecv, input, buckets,
                   buckets_points, received_leaves, received_points, chan,
                   seeds, local_blocktree, weights, q, received_blocks,
                   msg, blocks, to_split, niter, args, ret>>

RECURSIVE Concat(_, _, _)
Concat(f, from, to) ==
    IF from > to THEN <<>> ELSE f[from] \o Concat(f, from + 1, to)

\* The splitters every rank reads from the gathered samples: the samples
\* sorted, the first K dropped, then every K-th.
splitters_of(samples, n) ==
    LET received_samples == SortLeaves(Concat(samples, 0, n - 1))
        rest == SubSeq(received_samples, K + 1, Len(received_samples))
    IN  [i \in 1..(n - 1) |-> rest[(i - 1) * K + 1]]

\* A bucket test that sends the large keys to the low ranks.
bucket_index_greater(key, splitters, n) ==
    LET below == {i \in 0..(n - 1) : i < Len(splitters) /\ less_than(splitters[i + 1].key, key)}
    IN  IF below = {} THEN n - 1
        ELSE CHOOSE i \in below : \A j \in below : i <= j

\* The bucket a key falls in: the first i with key < splitters[i], or the last
\* bucket.
bucket_index(key, splitters, n) ==
    LET below == {i \in 0..(n - 1) : i < Len(splitters) /\ less_than(key, splitters[i + 1].key)}
    IN  IF below = {} THEN n - 1
        ELSE CHOOSE i \in below : \A j \in below : i <= j

\* buckets[i] and buckets_points[i] are the element i + 1 of these vectors.
buckets_of(leaves, splitters, n) ==
    [b \in 1..n |->
        SelectSeq(leaves, LAMBDA l : bucket_index(l.key, splitters, n) = b - 1)]

\* Point buckets that all go to rank 0.
buckets_points_first(pts, splitters, n) ==
    [b \in 1..n |-> IF b = 1 THEN pts ELSE <<>>]

buckets_points_of(pts, splitters, n) ==
    [b \in 1..n |->
        SelectSeq(pts, LAMBDA p : bucket_index(p.key, splitters, n) = b - 1)]

\* all_gather_into, which every rank leaves with the samples of all the ranks,
\* and the loops that fill the buckets.  The samples are not read again and
\* are dropped here.
AllGather ==
    /\ \A r \in Ranks : pc[r] = "all_gather"
    /\ LET splitters == splitters_of(local_samples, size)
       IN  /\ buckets' = [r \in Ranks |-> buckets_of(local_leaves[r], splitters, size)]
           /\ buckets_points' =
                  [r \in Ranks |-> buckets_points_of(points[r], splitters, size)]
    /\ local_samples' = [r \in Ranks |-> <<>>]
    /\ pc' = [r \in Ranks |-> "exchange_points"]
    /\ round' = [r \in Ranks |-> 0]
    /\ nrecv' = [r \in Ranks |-> 0]
    /\ UNCHANGED <<size, sorted, build, input, points, local_leaves,
                   received_leaves, received_points, chan,
                   seeds, local_blocktree, weights, q, received_blocks,
                   msg, blocks, to_split, niter, args, ret>>

\* A first loop that sends the leaf bucket along with the point bucket.
SendPoints_with_leaves(r) ==
    /\ pc[r] = "exchange_points"
    /\ round[r] # r
    /\ chan' = [chan EXCEPT ![r][round[r]] =
                   @ \o <<Msg("Point", buckets_points[r][round[r] + 1]),
                          Msg("Leaf", buckets[r][round[r] + 1])>>]
    /\ pc' = [pc EXCEPT ![r] = "barrier_points"]
    /\ UNCHANGED <<size, sorted, build, round, nrecv, input, points,
                   local_leaves, local_samples, buckets, buckets_points,
                   received_leaves, received_points, seeds, local_blocktree,
                   weights, q, received_blocks, msg, blocks, to_split, niter,
                   args, ret>>

\* Round `round[r]` of the first loop on a rank other than round[r]: send.
SendPoints(r) ==
    /\ pc[r] = "exchange_points"
    /\ round[r] # r
    /\ chan' = [chan EXCEPT ![r][round[r]] =
                   Append(@, Msg("Point", buckets_points[r][round[r] + 1]))]
    /\ pc' = [pc EXCEPT ![r] = "barrier_points"]
    /\ UNCHANGED <<size, sorted, build, round, nrecv, input, points,
                   local_leaves, local_samples, buckets, buckets_points,
                   received_leaves, received_points, seeds, local_blocktree,
                   weights, q, received_blocks, msg, blocks, to_split, niter,
                   args, ret>>

\* Round r on rank r: one receive from any process.
ReceivePoints(r, src) ==
    /\ pc[r] = "exchange_points"
    /\ round[r] = r
    /\ nrecv[r] < size - 1
    /\ chan[src][r] # <<>>
    /\ received_points' = [received_points EXCEPT ![r] = @ \o Head(chan[src][r]).data]
    /\ chan' = [chan EXCEPT ![src][r] = Tail(@)]
    /\ nrecv' = [nrecv EXCEPT ![r] = @ + 1]
    /\ UNCHANGED <<size, sorted, build, pc, round, input, points,
                   local_leaves, local_samples, buckets, buckets_points,
                   received_leaves, seeds, local_blocktree, weights, q, received_blocks, msg,
                   blocks, to_split, niter, args, ret>>

\* Round r on rank r: the receive loop is over.
ReceivedPoints(r) ==
    /\ pc[r] = "exchange_points"
    /\ round[r] = r
    /\ nrecv[r] = size - 1
    /\ nrecv' = [nrecv EXCEPT ![r] = 0]
    /\ pc' = [pc EXCEPT ![r] = "barrier_points"]
    /\ UNCHANGED <<size, sorted, build, round, input, points, local_leaves,
                   local_samples, buckets, buckets_points, received_leaves,
                   received_points, chan, seeds, local_blocktree, weights, q, received_blocks, msg,
                   blocks, to_split, niter, args, ret>>

\* world.barrier() of the first loop.
BarrierPoints ==
    /\ \A r \in Ranks : pc[r] = "barrier_points"
    /\ round' = [r \in Ranks |-> IF round[r] + 1 < size THEN round[r] + 1 ELSE 0]
    /\ pc' = [r \in Ranks |-> IF round[r] + 1 < size THEN "exchange_points"
                              ELSE "exchange_leaves"]
    /\ UNCHANGED <<size, sorted, build, nrecv, input, points, local_leaves,
                   local_samples, buckets, buckets_points, received_leaves,
                   received_points, chan, seeds, local_blocktree, weights, q, received_blocks, msg,
                   blocks, to_split, niter, args, ret>>

\* The second loop: the same rounds for the leaf buckets.
SendLeaves(r) ==
    /\ pc[r] = "exchange_leaves"
    /\ round[r] # r
    /\ chan' = [chan EXCEPT ![r][round[r]] =
                   Append(@, Msg("Leaf", buckets[r][round[r] + 1]))]
    /\ pc' = [pc EXCEPT ![r] = "barrier_leaves"]
    /\ UNCHANGED <<size, sorted, build, round, nrecv, input, points,
                   local_leaves, local_samples, buckets, buckets_points,
                   received_leaves, received_points, seeds, local_blocktree,
                   weights, q, received_blocks, msg, blocks, to_split, niter,
                   args, ret>>

ReceiveLeaves(r, src) ==
    /\ pc[r] = "exchange_leaves"
    /\ round[r] = r
    /\ nrecv[r] < size - 1
    /\ chan[src][r] # <<>>
    /\ received_leaves' = [received_leaves EXCEPT ![r] = @ \o Head(chan[src][r]).data]
    /\ chan' = [chan EXCEPT ![src][r] = Tail(@)]
    /\ nrecv' = [nrecv EXCEPT ![r] = @ + 1]
    /\ UNCHANGED <<size, sorted, build, pc, round, input, points,
                   local_leaves, local_samples, buckets, buckets_points,
                   received_points, seeds, local_blocktree, weights, q, received_blocks, msg,
                   blocks, to_split, niter, args, ret>>

ReceivedLeaves(r) ==
    /\ pc[r] = "exchange_leaves"
    /\ round[r] = r
    /\ nrecv[r] = size - 1
    /\ nrecv' = [nrecv EXCEPT ![r] = 0]
    /\ pc' = [pc EXCEPT ![r] = "barrier_leaves"]
    /\ UNCHANGED <<size, sorted, build, round, input, points, local_leaves,
                   local_samples, buckets, buckets_points, received_leaves,
                   received_points, chan, seeds, local_blocktree, weights, q, received_blocks, msg,
                   blocks, to_split, niter, args, ret>>

BarrierLeaves ==
    /\ \A r \in Ranks : pc[r] = "barrier_leaves"
    /\ round' = [r \in Ranks |-> IF round[r] + 1 < size THEN round[r] + 1 ELSE 0]
    /\ pc' = [r \in Ranks |-> IF round[r] + 1 < size THEN "exchange_leaves"
                              ELSE "sort_received"]
    /\ UNCHANGED <<size, sorted, build, nrecv, input, points, local_leaves,
                   local_samples, buckets, buckets_points, received_leaves,
                   received_points, chan, seeds, local_blocktree, weights, q, received_blocks, msg,
                   blocks, to_split, niter, args, ret>>

\* Step 4 of sample_sort: the rank's own buckets are appended and the leaves
\* sorted; the driver goes on to unique_leaves.
SortReceived(r) ==
    /\ pc[r] = "sort_received"
    /\ received_leaves' = [received_leaves EXCEPT
                               ![r] = SortLeaves(@ \o buckets[r][r + 1])]
    /\ received_points' = [received_points EXCEPT ![r] = @ \o buckets_points[r][r + 1]]
    /\ pc' = [pc EXCEPT ![r] = "unique_leaves"]
    /\ UNCHANGED <<size, sorted, build, round, nrecv, input, points,
                   local_leaves, local_samples, buckets, buckets_points, chan,
                   seeds, local_blocktree, weights, q, received_blocks,
                   msg, blocks, to_split, niter, args, ret>>

(***************************************************************************)
(* The callers' points: every rank holds at least one point, at most       *)
(* MaxPoints in all, in any order, two of them in the same cell.           *)
(***************************************************************************)
PointChoice == {Point(0, 0, 0), Point(1, 0, 0), Point(2, 0, 0), Point(7, 7, 7)}

RECURSIVE TotalLen(_, _)
TotalLen(f, n) == IF n = 0 THEN 0 ELSE Len(f[n - 1]) + TotalLen(f, n - 1)

Inputs(n) ==
    {f \in [0..(n - 1) -> SeqsUpTo(PointChoice, MaxPoints - n + 1)] :
        /\ \A r \in 0..(n - 1) : Len(f[r]) >= 1
        /\ TotalLen(f, n) <= MaxPoints}

InitSort ==
    \E n \in 1..MaxRanks :
        /\ size = n
        /\ sorted = TRUE
        /\ build = "release"
        /\ pc = [r \in 0..(n - 1) |-> "encode_points"]
        /\ round = [r \in 0..(n - 1) |-> 0]
        /\ nrecv = [r \in 0..(n - 1) |-> 0]
        /\ input \in Inputs(n)
        /\ points = [r \in 0..(n - 1) |-> <<>>]
        /\ local_leaves = [r \in 0..(n - 1) |-> <<>>]
        /\ local_samples = [r \in 0..(n - 1) |-> <<>>]
        /\ buckets = [r \in 0..(n - 1) |-> <<>>]
        /\ buckets_points = [r \in 0..(n - 1) |-> <<>>]
        /\ received_leaves = [r \in 0..(n - 1) |-> <<>>]
        /\ received_points = [r \in 0..(n - 1) |-> <<>>]
        /\ chan = [s \in 0..(n - 1) |-> [d \in 0..(n - 1) |-> <<>>]]
        /\ seeds = [r \in 0..(n - 1) |-> <<>>]
        /\ local_blocktree = [r \in 0..(n - 1) |-> <<>>]
        /\ weights = [r \in 0..(n - 1) |-> <<>>]
        /\ q = [r \in 0..(n - 1) |-> <<>>]
        /\ received_blocks = [r \in 0..(n - 1) |-> <<>>]
        /\ msg = [r \in 0..(n - 1) |-> <<>>]
        /\ blocks = [r \in 0..(n - 1) |-> <<>>]
        /\ to_split = [r \in 0..(n - 1) |-> {}]
        /\ niter = [r \in 0..(n - 1) |-> 0]
        /\ args = <<>>
        /\ ret = <<>>

SampleSort ==
    \/ \E r \in Ranks : Sample(r)
    \/ AllGather
    \/ \E r \in Ranks : SendPoints(r)
    \/ \E r, src \in Ranks : ReceivePoints(r, src)
    \/ \E r \in Ranks : ReceivedPoints(r)
    \/ BarrierPoints
    \/ \E r \in Ranks : SendLeaves(r)
    \/ \E r, src \in Ranks : ReceiveLeaves(r, src)
    \/ \E r \in Ranks : ReceivedLeaves(r)
    \/ BarrierLeaves
    \/ \E r \in Ranks : SortReceived(r)

NextSort ==
    \/ \E r \in Ranks : EncodePoints(r)
    \/ SampleSort

SpecSort == InitSort /\ [][NextSort]_vars

\* sample_sort has returned on every rank.
SampleSortReturned == \A r \in Ranks : pc[r] = "unique_leaves"

PointsWithKey(pts, k) == SelectSeq(pts, LAMBDA p : p.key = k)

\* C4: after sample_sort has returned on all ranks, on every rank the number of
\* received points of a key is the sum of npoints of the received leaves of
\* that key.
C4_LeavesAndPointsTogether ==
    SampleSortReturned =>
        \A r \in Ranks :
            \A k \in LeafKeys(received_leaves[r]) \cup {p.key : p \in Range(received_points[r])} :
                Len(PointsWithKey(received_points[r], k))
                    = SumNpoints(WithKey(received_leaves[r], k))

\* C4 witness: two ranks returned and the second holds points it received
\* from the first.
C4_Witness ==
    /\ SampleSortReturned
    /\ size >= 2
    /\ Len(received_points[1]) > Len(buckets_points[1][2])
    /\ received_leaves[0] # <<>>

(***************************************************************************)
(* unbalanced_tree, step 4.i: find_seeds, and the fresh buffers that       *)
(* transfer_leaves_to_coarse_blocktree fills.                              *)
(***************************************************************************)
FindSeeds(r) ==
    /\ pc[r] = "find_seeds"
    /\ seeds' = [seeds EXCEPT ![r] = find_seeds(local_leaves[r])]
    /\ received_leaves' = [received_leaves EXCEPT ![r] = <<>>]
    /\ received_points' = [received_points EXCEPT ![r] = <<>>]
    /\ pc' = [pc EXCEPT ![r] = "coarse_send_leaves"]
    /\ UNCHANGED <<size, sorted, build, round, nrecv, input, points,
                   local_leaves, local_samples, buckets, buckets_points, chan,
                   local_blocktree, weights, q, received_blocks, msg, blocks, to_split, niter,
                   args, ret>>

(***************************************************************************)
(* tree.rs: transfer_leaves_to_coarse_blocktree.                           *)
(***************************************************************************)
min_seed(r) ==
    IF r = 0 THEN KeyMin(LeafKeys(local_leaves[r])) ELSE KeyMin(Range(seeds[r]))

\* A test that also sends away what lies at the minimum seed.
BelowMinSeed_inclusive(s, r) == SelectSeq(s, LAMBDA l : ~less_than(min_seed(r), l.key))

BelowMinSeed(s, r) == SelectSeq(s, LAMBDA l : less_than(l.key, min_seed(r)))

FromMinSeed(s, r) == SelectSeq(s, LAMBDA l : ~less_than(l.key, min_seed(r)))

CoarseSendLeaves(r) ==
    /\ pc[r] = "coarse_send_leaves"
    /\ chan' = IF r > 0
               THEN [chan EXCEPT ![r][r - 1] =
                        Append(@, Msg("Leaf", BelowMinSeed(local_leaves[r], r)))]
               ELSE chan
    /\ pc' = [pc EXCEPT ![r] = "coarse_receive_leaves"]
    /\ UNCHANGED <<size, sorted, build, round, nrecv, input, points,
                   local_leaves, local_samples, buckets, buckets_points,
                   received_leaves, received_points, seeds, local_blocktree,
                   weights, q, received_blocks, msg, blocks, to_split, niter,
                   args, ret>>

\* The receive from any process on the ranks below the last; the last rank
\* goes on.
CoarseReceiveLeaves(r, src) ==
    /\ pc[r] = "coarse_receive_leaves"
    /\ IF r < size - 1
       THEN /\ chan[src][r] # <<>>
            /\ received_leaves' = [received_leaves EXCEPT
                                       ![r] = @ \o Head(chan[src][r]).data]
            /\ chan' = [chan EXCEPT ![src][r] = Tail(@)]
       ELSE /\ src = r
            /\ UNCHANGED <<received_leaves, chan>>
    /\ pc' = [pc EXCEPT ![r] = "coarse_send_points"]
    /\ UNCHANGED <<size, sorted, build, round, nrecv, input, points,
                   local_leaves, local_samples, buckets, buckets_points,
                   received_points, seeds, local_blocktree, weights, q, received_blocks, msg,
                   blocks, to_split, niter, args, ret>>

CoarseSendPoints(r) ==
    /\ pc[r] = "coarse_send_points"
    /\ chan' = IF r > 0
               THEN [chan EXCEPT ![r][r - 1] =
                        Append(@, Msg("Point", BelowMinSeed(points[r], r)))]
               ELSE chan
    /\ pc' = [pc EXCEPT ![r] = "coarse_receive_points"]
    /\ UNCHANGED <<size, sorted, build, round, nrecv, input, points,
                   local_leaves, local_samples, buckets, buckets_points,
                   received_leaves, received_points, seeds, local_blocktree,
                   weights, q, received_blocks, msg, blocks, to_split, niter,
                   args, ret>>

\* The second receive, and the rest of the function: the rank's own leaves and
\* points from min_seed on are appended and the leaves sorted.  The driver
\* takes the two buffers as its local_leaves and points.
CoarseReceivePoints(r, src) ==
    /\ pc[r] = "coarse_receive_points"
    /\ IF r < size - 1
       THEN /\ chan[src][r] # <<>>
            /\ chan' = [chan EXCEPT ![src][r] = Tail(@)]
            /\ received_points' = [received_points EXCEPT
                   ![r] = @ \o Head(chan[src][r]).data \o FromMinSeed(points[r], r)]
       ELSE /\ src = r
            /\ chan' = chan
            /\ received_points' = [received_points EXCEPT
                   ![r] = @ \o FromMinSeed(points[r], r)]
    /\ received_leaves' = [received_leaves EXCEPT
           ![r] = SortLeaves(@ \o FromMinSeed(local_leaves[r], r))]
    /\ local_leaves' = [local_leaves EXCEPT ![r] = received_leaves'[r]]
    /\ points' = [points EXCEPT ![r] = received_points'[r]]
    /\ pc' = [pc EXCEPT ![r] = "complete_blocktree"]
    /\ UNCHANGED <<size, sorted, build, round, nrecv, input, local_samples,
                   buckets, buckets_points, seeds, local_blocktree, weights,
                   q, received_blocks, msg, blocks, to_split, niter,
                   args, ret>>

(***************************************************************************)
(* tree.rs: complete_blocktree, up to its send and from its receive on.    *)
(***************************************************************************)
CompleteBlocktreeSend(r) ==
    /\ pc[r] = "complete_blocktree"
    /\ LET sds == complete_blocktree_seeds(seeds[r], r, size)
       IN  /\ seeds' = [seeds EXCEPT ![r] = sds]
           /\ chan' = IF r > 0
                      THEN [chan EXCEPT ![r][r - 1] =
                               Append(@, Msg("Key", KeyMin(Range(sds))))]
                      ELSE chan
    /\ pc' = [pc EXCEPT ![r] = "complete_blocktree_receive"]
    /\ UNCHANGED <<size, sorted, build, round, nrecv, input, points,
                   local_leaves, local_samples, buckets, buckets_points,
                   received_leaves, received_points, local_blocktree, weights,
                   q, received_blocks, msg, blocks, to_split, niter,
                   args, ret>>

CompleteBlocktreeReceive(r, src) ==
    /\ pc[r] = "complete_blocktree_receive"
    /\ IF r < size - 1
       THEN /\ chan[src][r] # <<>>
            /\ chan' = [chan EXCEPT ![src][r] = Tail(@)]
            /\ seeds' = [seeds EXCEPT ![r] = Append(@, Head(chan[src][r]).data)]
       ELSE /\ src = r
            /\ UNCHANGED <<chan, seeds>>
    /\ local_blocktree' = [local_blocktree EXCEPT
           ![r] = complete_blocktree_local(seeds'[r], r, size)]
    /\ pc' = [pc EXCEPT ![r] = "assign_blocks_to_leaves"]
    /\ UNCHANGED <<size, sorted, build, round, nrecv, input, points,
                   local_leaves, local_samples, buckets, buckets_points,
                   received_leaves, received_points, weights, q, received_blocks, msg, blocks,
                   to_split, niter, args, ret>>

(***************************************************************************)
(* unbalanced_tree, step 5: assign_blocks_to_leaves.                       *)
(***************************************************************************)
AssignBlocksToLeaves(r) ==
    /\ pc[r] = "assign_blocks_to_leaves"
    /\ local_leaves' = [local_leaves EXCEPT
           ![r] = assign_blocks_to_leaves(@, local_blocktree[r])]
    /\ pc' = [pc EXCEPT ![r] = "split_blocks"]
    /\ UNCHANGED <<size, sorted, build, round, nrecv, input, points,
                   local_samples, buckets, buckets_points, received_leaves,
                   received_points, chan, seeds, local_blocktree, weights, q, received_blocks, msg,
                   blocks, to_split, niter, args, ret>>

Blocktree ==
    \/ \E r \in Ranks : FindSeeds(r)
    \/ \E r \in Ranks : CoarseSendLeaves(r)
    \/ \E r, src \in Ranks : CoarseReceiveLeaves(r, src)
    \/ \E r \in Ranks : CoarseSendPoints(r)
    \/ \E r, src \in Ranks : CoarseReceivePoints(r, src)
    \/ \E r \in Ranks : CompleteBlocktreeSend(r)
    \/ \E r, src \in Ranks : CompleteBlocktreeReceive(r, src)

(***************************************************************************)
(* unbalanced_tree on `size` ranks.                                        *)
(***************************************************************************)
Init ==
    \E n \in 1..MaxRanks :
        /\ size = n
        /\ sorted = TRUE
        /\ build \in {"debug", "release"}
        /\ pc = [r \in 0..(n - 1) |-> "encode_points"]
        /\ round = [r \in 0..(n - 1) |-> 0]
        /\ nrecv = [r \in 0..(n - 1) |-> 0]
        /\ input \in Inputs(n)
        /\ points = [r \in 0..(n - 1) |-> <<>>]
        /\ local_leaves = [r \in 0..(n - 1) |-> <<>>]
        /\ local_samples = [r \in 0..(n - 1) |-> <<>>]
        /\ buckets = [r \in 0..(n - 1) |-> <<>>]
        /\ buckets_points = [r \in 0..(n - 1) |-> <<>>]
        /\ received_leaves = [r \in 0..(n - 1) |-> <<>>]
        /\ received_points = [r \in 0..(n - 1) |-> <<>>]
        /\ chan = [s \in 0..(n - 1) |-> [d \in 0..(n - 1) |-> <<>>]]
        /\ seeds = [r \in 0..(n - 1) |-> <<>>]
        /\ local_blocktree = [r \in 0..(n - 1) |-> <<>>]
        /\ weights = [r \in 0..(n - 1) |-> <<>>]
        /\ q = [r \in 0..(n - 1) |-> <<>>]
        /\ received_blocks = [r \in 0..(n - 1) |-> <<>>]
        /\ msg = [r \in 0..(n - 1) |-> <<>>]
        /\ blocks = [r \in 0..(n - 1) |-> <<>>]
        /\ to_split = [r \in 0..(n - 1) |-> {}]
        /\ niter = [r \in 0..(n - 1) |-> 0]
        /\ args = <<>>
        /\ ret = <<>>

Next ==
    \/ \E r \in Ranks : EncodePoints(r)
    \/ SampleSort
    \/ \E r \in Ranks : UniqueLeaves(r)
    \/ Blocktree
    \/ \E r \in Ranks : AssignBlocksToLeaves(r)
    \/ NextSplit

Spec == Init /\ [][Next]_vars

\* unbalanced_tree has returned its Tree, the map `blocks`, on every rank.
TreeReturned == \A r \in Ranks : pc[r] = "done"

\* The keys the input points of all ranks encode to.
InputKeys == UNION {{encode_point(p).key : p \in Range(input[r])} : r \in Ranks}

\* The number of input points, over all ranks, that encode to a key.
RECURSIVE InputCount(_, _)
InputCount(k, n) ==
    IF n = 0 THEN 0
    ELSE Len(PointsWithKey(encode_points(input[n - 1]), k)) + InputCount(k, n - 1)

\* The places <<rank, block, index>> of the leaves of all the Trees.
TreeLeaves ==
    UNION {UNION {{<<r, b, i>> : i \in DOMAIN blocks[r][b]} : b \in DOMAIN blocks[r]} :
               r \in Ranks}

\* C1: once unbalanced_tree has returned on every rank, every leaf key of the
\* global input is the key of exactly one leaf of exactly one rank's Tree, and
\* that leaf's npoints is the number of input points encoded to that key.
C1_EndToEndConservation ==
    TreeReturned =>
        /\ \A k \in InputKeys :
               \E l \in TreeLeaves :
                   /\ blocks[l[1]][l[2]][l[3]].key = k
                   /\ blocks[l[1]][l[2]][l[3]].npoints = InputCount(k, size)
                   /\ \A m \in TreeLeaves :
                          blocks[m[1]][m[2]][m[3]].key = k => m = l
        /\ \A l \in TreeLeaves : blocks[l[1]][l[2]][l[3]].key \in InputKeys

(***************************************************************************)
(* find_seeds and complete_blocktree over Morton-sorted leaves of distinct *)
(* keys, cut into one non-empty run for each rank.                         *)
(***************************************************************************)
BlocktreeKeyChoice ==
    {<<0, 0, 0, depth>>, <<1, 0, 0, depth>>, <<0, 1, 1, depth>>,
     <<2, 0, 1, depth>>, <<1, 3, 2, depth>>, <<3, 3, 3, depth>>}

\* The sorted leaves of a set of keys, and their runs over n ranks: cuts[r] is
\* the number of leaves on the ranks below r.
LeavesOfKeys(S) == [i \in 1..Cardinality(S) |-> Leaf(SetToSortedKeys(S)[i], Key_default, 1)]

Partitions(leaves, n) ==
    {[r \in 0..(n - 1) |-> SubSeq(leaves, cuts[r] + 1, cuts[r + 1])] :
        cuts \in {c \in [0..n -> 0..Len(leaves)] :
                     /\ c[0] = 0
                     /\ c[n] = Len(leaves)
                     /\ \A r \in 0..(n - 1) : c[r] < c[r + 1]}}

InitBT ==
    \E n \in 1..MaxRanks :
        \E S \in SUBSET BlocktreeKeyChoice :
            /\ size = n
            /\ sorted = TRUE
            /\ build = "release"
            /\ pc = [r \in 0..(n - 1) |-> "find_seeds"]
            /\ round = [r \in 0..(n - 1) |-> 0]
            /\ nrecv = [r \in 0..(n - 1) |-> 0]
            /\ input = [r \in 0..(n - 1) |-> <<>>]
            /\ points = [r \in 0..(n - 1) |-> <<>>]
            /\ local_leaves \in Partitions(LeavesOfKeys(S), n)
            /\ local_samples = [r \in 0..(n - 1) |-> <<>>]
            /\ buckets = [r \in 0..(n - 1) |-> <<>>]
            /\ buckets_points = [r \in 0..(n - 1) |-> <<>>]
            /\ received_leaves = [r \in 0..(n - 1) |-> <<>>]
            /\ received_points = [r \in 0..(n - 1) |-> <<>>]
            /\ chan = [s \in 0..(n - 1) |-> [d \in 0..(n - 1) |-> <<>>]]
            /\ seeds = [r \in 0..(n - 1) |-> <<>>]
            /\ local_blocktree = [r \in 0..(n - 1) |-> <<>>]
            /\ weights = [r \in 0..(n - 1) |-> <<>>]
            /\ q = [r \in 0..(n - 1) |-> <<>>]
            /\ received_blocks = [r \in 0..(n - 1) |-> <<>>]
            /\ msg = [r \in 0..(n - 1) |-> <<>>]
            /\ blocks = [r \in 0..(n - 1) |-> <<>>]
            /\ to_split = [r \in 0..(n - 1) |-> {}]
            /\ niter = [r \in 0..(n - 1) |-> 0]
            /\ args = <<>>
            /\ ret = <<>>

SpecBT == InitBT /\ [][Blocktree]_vars

\* complete_blocktree has returned on every rank.
BlocktreeReturned == \A r \in Ranks : pc[r] = "assign_blocks_to_leaves"

\* The union over the ranks of the local blocktrees.
GlobalBlocktree == UNION {Range(local_blocktree[r]) : r \in Ranks}

\* a is an ancestor of b at a coarser level.
IsProperAncestor(a, b) == a[4] < b[4] /\ a \in Range(find_ancestors(b))

\* The cells of the root at level depth.
DepthCells ==
    {<<x, y, z, depth>> : x \in 0..(Pow2(depth) - 1), y \in 0..(Pow2(depth) - 1),
                          z \in 0..(Pow2(depth) - 1)}

\* C2: after find_seeds and complete_blocktree have run on all ranks, no key of
\* the union of the local blocktrees is a proper ancestor of another, and
\* every cell at level depth has an ancestor-or-self in the union.
C2_BlocktreePartition ==
    BlocktreeReturned =>
        /\ \A a, b \in GlobalBlocktree : ~IsProperAncestor(a, b)
        /\ \A cell \in DepthCells :
               \E b \in GlobalBlocktree : b = cell \/ IsProperAncestor(b, cell)

\* C2 witness: two ranks have completed blocktrees that hold blocks of two
\* levels and differ.
C2_Witness ==
    /\ BlocktreeReturned
    /\ size >= 2
    /\ Range(local_blocktree[0]) # Range(local_blocktree[1])
    /\ \E a, b \in GlobalBlocktree : a[4] < b[4]

(***************************************************************************)
(* tree.rs: block_partition.                                               *)
(***************************************************************************)
next_rank(r) == IF r + 1 < size THEN r + 1 ELSE 0

previous_rank(r) == IF r > 0 THEN r - 1 ELSE size - 1

local_weight(r) == SumSeq(weights[r])

\* scan_into with the sum: the weights of the ranks up to and with r.
RECURSIVE cumulative_weight(_)
cumulative_weight(r) ==
    IF r = 0 THEN local_weight(0) ELSE local_weight(r) + cumulative_weight(r - 1)

\* The broadcast of the last rank's cumulative weight.
total_weight == cumulative_weight(size - 1)

local_cumulative_weights(r) ==
    [i \in DOMAIN weights[r] |->
        SumSeq(SubSeq(weights[r], 1, i)) + cumulative_weight(r) - local_weight(r)]

\* The blocks of rank r whose cumulative weight lies in [cond1, cond2).
RECURSIVE PartitionLoop(_, _, _, _)
PartitionLoop(r, cond1, cond2, i) ==
    IF i > Len(local_blocktree[r]) THEN <<>>
    ELSE (IF cond1 <= local_cumulative_weights(r)[i]
             /\ local_cumulative_weights(r)[i] < cond2
          THEN <<local_blocktree[r][i]>> ELSE <<>>)
         \o PartitionLoop(r, cond1, cond2, i + 1)

\* The q of rank r: w is the ceiling of total_weight / size.
partition_q(r) ==
    LET w == (total_weight + size - 1) \div size
        k == total_weight % size
        p == r + 1
    IN  IF p <= k
        THEN PartitionLoop(r, (p - 1) * (w + 1), p * (w + 1), 1)
        ELSE PartitionLoop(r, (p - 1) * w + k, p * w + k, 1)

\* The two scans and the two broadcasts, which no rank leaves before every
\* rank has entered, and the loops that fill q.
BlockPartitionScan ==
    /\ \A r \in Ranks : pc[r] = "block_partition"
    /\ q' = [r \in Ranks |-> partition_q(r)]
    /\ received_blocks' = [r \in Ranks |-> <<>>]
    /\ round' = [r \in Ranks |-> 0]
    /\ pc' = [r \in Ranks |-> "partition_exchange"]
    /\ UNCHANGED <<size, sorted, build, nrecv, input, points, local_leaves,
                   local_samples, buckets, buckets_points, received_leaves,
                   received_points, chan, seeds, local_blocktree, weights,
                   msg, blocks, to_split, niter, args, ret>>

\* `for r in 0..size`: a rank sends in pass `rank` and receives in pass
\* next_rank, the send first when both fall in one pass.  round counts the
\* two done.
SendsFirst(r) == r <= next_rank(r)

\* local_blocktree.remove at the first position of the block, if any.
RemoveFirst(s, b) ==
    IF b \notin Range(s) THEN s
    ELSE LET e == CHOOSE i \in DOMAIN s : s[i] = b /\ \A j \in 1..(i - 1) : s[j] # b
         IN  SubSeq(s, 1, e - 1) \o SubSeq(s, e + 1, Len(s))

RECURSIVE RemoveSent(_, _)
RemoveSent(s, sent) ==
    IF Len(sent) = 0 THEN s ELSE RemoveSent(RemoveFirst(s, sent[1]), Tail(sent))

\* The end of block_partition without the loop over q that removes the sent
\* blocks.
partitioned_blocktree_extend_only(r, received) == local_blocktree[r] \o received

\* The end of block_partition: the sent blocks leave local_blocktree and the
\* received ones are appended.
partitioned_blocktree(r, received) == RemoveSent(local_blocktree[r], q[r]) \o received

PartitionSend(r) ==
    /\ pc[r] = "partition_exchange"
    /\ round[r] = (IF SendsFirst(r) THEN 0 ELSE 1)
    /\ chan' = [chan EXCEPT ![r][previous_rank(r)] = Append(@, Msg("Key", q[r]))]
    /\ IF round[r] = 1
       THEN /\ local_blocktree' = [local_blocktree EXCEPT
                   ![r] = partitioned_blocktree(r, received_blocks[r])]
            /\ pc' = [pc EXCEPT ![r] = "transfer_leaves_to_final_blocktree"]
            /\ round' = [round EXCEPT ![r] = 0]
       ELSE /\ round' = [round EXCEPT ![r] = 1]
            /\ UNCHANGED <<local_blocktree, pc>>
    /\ UNCHANGED <<size, sorted, build, nrecv, input, points, local_leaves,
                   local_samples, buckets, buckets_points, received_leaves,
                   received_points, seeds, weights, q, received_blocks, msg,
                   blocks, to_split, niter, args, ret>>

PartitionReceive(r, src) ==
    /\ pc[r] = "partition_exchange"
    /\ round[r] = (IF SendsFirst(r) THEN 1 ELSE 0)
    /\ chan[src][r] # <<>>
    /\ chan' = [chan EXCEPT ![src][r] = Tail(@)]
    /\ received_blocks' = [received_blocks EXCEPT ![r] = @ \o Head(chan[src][r]).data]
    /\ IF round[r] = 1
       THEN /\ local_blocktree' = [local_blocktree EXCEPT
                   ![r] = partitioned_blocktree(r, received_blocks'[r])]
            /\ pc' = [pc EXCEPT ![r] = "transfer_leaves_to_final_blocktree"]
            /\ round' = [round EXCEPT ![r] = 0]
       ELSE /\ round' = [round EXCEPT ![r] = 1]
            /\ UNCHANGED <<local_blocktree, pc>>
    /\ UNCHANGED <<size, sorted, build, nrecv, input, points, local_leaves,
                   local_samples, buckets, buckets_points, received_leaves,
                   received_points, seeds, weights, q, msg, blocks, to_split,
                   niter, args, ret>>

(***************************************************************************)
(* tree.rs: transfer_leaves_to_final_blocktree, with sent_blocks = q.      *)
(***************************************************************************)
prev_rank(r) == IF r > 0 THEN r - 1 ELSE size - 1

\* msg: for every sent block in turn, the leaves of that block.
RECURSIVE to_send(_, _)
to_send(leaves, sent_blocks) ==
    IF Len(sent_blocks) = 0 THEN <<>>
    ELSE SelectSeq(leaves, LAMBDA l : l.block = sent_blocks[1])
         \o to_send(leaves, Tail(sent_blocks))

\* Leaves that all stay on the rank.
retained_all(leaves, sent_blocks) == leaves

\* local_leaves.retain for every sent block.
retained(leaves, sent_blocks) ==
    SelectSeq(leaves, LAMBDA l : l.block \notin Range(sent_blocks))

TransferFinalMsg(r) ==
    /\ pc[r] = "transfer_leaves_to_final_blocktree"
    /\ msg' = [msg EXCEPT ![r] = to_send(local_leaves[r], q[r])]
    /\ local_leaves' = [local_leaves EXCEPT ![r] = retained(@, q[r])]
    /\ round' = [round EXCEPT ![r] = 0]
    /\ pc' = [pc EXCEPT ![r] = "final_exchange"]
    /\ UNCHANGED <<size, sorted, build, nrecv, input, points, local_samples,
                   buckets, buckets_points, received_leaves, received_points,
                   chan, seeds, local_blocktree, weights, q, received_blocks,
                   blocks, to_split, niter, args, ret>>

TransferFinalSend(r) ==
    /\ pc[r] = "final_exchange"
    /\ round[r] = (IF SendsFirst(r) THEN 0 ELSE 1)
    /\ chan' = [chan EXCEPT ![r][prev_rank(r)] = Append(@, Msg("Leaf", msg[r]))]
    /\ round' = [round EXCEPT ![r] = @ + 1]
    /\ pc' = [pc EXCEPT ![r] = IF round[r] = 1 THEN "balanced" ELSE @]
    /\ UNCHANGED <<size, sorted, build, nrecv, input, points, local_leaves,
                   local_samples, buckets, buckets_points, received_leaves,
                   received_points, seeds, local_blocktree, weights, q,
                   received_blocks, msg, blocks, to_split, niter, args, ret>>

TransferFinalReceive(r, src) ==
    /\ pc[r] = "final_exchange"
    /\ round[r] = (IF SendsFirst(r) THEN 1 ELSE 0)
    /\ chan[src][r] # <<>>
    /\ chan' = [chan EXCEPT ![src][r] = Tail(@)]
    /\ local_leaves' = [local_leaves EXCEPT ![r] = @ \o Head(chan[src][r]).data]
    /\ round' = [round EXCEPT ![r] = @ + 1]
    /\ pc' = [pc EXCEPT ![r] = IF round[r] = 1 THEN "balanced" ELSE @]
    /\ UNCHANGED <<size, sorted, build, nrecv, input, points, local_samples,
                   buckets, buckets_points, received_leaves, received_points,
                   seeds, local_blocktree, weights, q, received_blocks, msg,
                   blocks, to_split, niter, args, ret>>

(***************************************************************************)
(* The load balancer on its own: the eight octants of the root as blocks,  *)
(* in Morton order and cut into one non-empty run for each rank, with up   *)
(* to MaxWeight leaves in each block and MaxLeavesLB in all, the leaves    *)
(* assigned to their blocks and the weights found.                         *)
(***************************************************************************)
Octants == SortKeys(find_children(<<0, 0, 0, 0>>))

\* The first and, for the second leaf, the last cell of a block at level depth.
LeafOfBlock(b, j) ==
    Leaf(IF j = 1 THEN find_deepest_first_descendent(b)
         ELSE IF j = 2 THEN find_deepest_last_descendent(b)
         ELSE <<b[1] + j - 2, b[2], b[3], depth>>, b, 1)

RECURSIVE LeavesOfBlocks(_, _)
LeavesOfBlocks(blocktree, load) ==
    IF Len(blocktree) = 0 THEN <<>>
    ELSE [j \in 1..load[blocktree[1]] |-> LeafOfBlock(blocktree[1], j)]
         \o LeavesOfBlocks(Tail(blocktree), load)

Loads ==
    {load \in [Range(Octants) -> 0..MaxWeight] :
        SumSeq([i \in DOMAIN Octants |-> load[Octants[i]]]) <= MaxLeavesLB}

Cuts(len, n) ==
    {c \in [0..n -> 0..len] :
        c[0] = 0 /\ c[n] = len /\ \A r \in 0..(n - 1) : c[r] < c[r + 1]}

InitLB ==
    \E n \in 1..MaxRanksLB :
        \E cuts \in Cuts(Len(Octants), n), load \in Loads :
            LET blocktree == [r \in 0..(n - 1) |-> SubSeq(Octants, cuts[r] + 1, cuts[r + 1])]
                leaves == [r \in 0..(n - 1) |-> LeavesOfBlocks(blocktree[r], load)]
            IN
            /\ size = n
            /\ sorted = TRUE
            /\ build = "release"
            /\ pc = [r \in 0..(n - 1) |-> "block_partition"]
            /\ round = [r \in 0..(n - 1) |-> 0]
            /\ nrecv = [r \in 0..(n - 1) |-> 0]
            /\ input = [r \in 0..(n - 1) |-> <<>>]
            /\ points = [r \in 0..(n - 1) |-> <<>>]
            /\ local_leaves = leaves
            /\ local_samples = [r \in 0..(n - 1) |-> <<>>]
            /\ buckets = [r \in 0..(n - 1) |-> <<>>]
            /\ buckets_points = [r \in 0..(n - 1) |-> <<>>]
            /\ received_leaves = [r \in 0..(n - 1) |-> <<>>]
            /\ received_points = [r \in 0..(n - 1) |-> <<>>]
            /\ chan = [s \in 0..(n - 1) |-> [d \in 0..(n - 1) |-> <<>>]]
            /\ seeds = [r \in 0..(n - 1) |-> <<>>]
            /\ local_blocktree = blocktree
            /\ weights = [r \in 0..(n - 1) |-> find_block_weights(leaves[r], blocktree[r])]
            /\ q = [r \in 0..(n - 1) |-> <<>>]
            /\ received_blocks = [r \in 0..(n - 1) |-> <<>>]
            /\ msg = [r \in 0..(n - 1) |-> <<>>]
            /\ blocks = [r \in 0..(n - 1) |-> <<>>]
            /\ to_split = [r \in 0..(n - 1) |-> {}]
            /\ niter = [r \in 0..(n - 1) |-> 0]
            /\ args = [local_blocktree |-> blocktree]
            /\ ret = <<>>

NextLB ==
    \/ BlockPartitionScan
    \/ \E r \in Ranks : PartitionSend(r)
    \/ \E r, src \in Ranks : PartitionReceive(r, src)
    \/ \E r \in Ranks : TransferFinalMsg(r)
    \/ \E r \in Ranks : TransferFinalSend(r)
    \/ \E r, src \in Ranks : TransferFinalReceive(r, src)

SpecLB == InitLB /\ [][NextLB]_vars

\* block_partition has returned on every rank and no leaf has moved yet.
PartitionReturned == \A r \in Ranks : pc[r] = "transfer_leaves_to_final_blocktree"

\* The weight of a block: the leaves, on any rank, that are assigned to it.
RECURSIVE BlockWeight(_, _)
BlockWeight(b, n) ==
    IF n = 0 THEN 0
    ELSE Len(SelectSeq(local_leaves[n - 1], LAMBDA l : l.block = b)) + BlockWeight(b, n - 1)

\* The weight of the blocks a rank holds.
HeldWeight(r) ==
    SumSeq([i \in DOMAIN local_blocktree[r] |-> BlockWeight(local_blocktree[r][i], size)])

MaxBlockWeight ==
    LET ws == {BlockWeight(b, size) : b \in UNION {Range(local_blocktree[r]) : r \in Ranks}}
    IN  CHOOSE m \in ws : \A o \in ws : o <= m

AllWeight == SumSeq([i \in 1..size |-> HeldWeight(i - 1)])

\* C5: after block_partition has run on all ranks, the weight of the blocks of
\* every rank differs from W_total / P by at most the largest weight of one
\* block (both sides times P).
C5_LoadBalance ==
    PartitionReturned =>
        \A r \in Ranks :
            /\ size * HeldWeight(r) - AllWeight <= size * MaxBlockWeight
            /\ AllWeight - size * HeldWeight(r) <= size * MaxBlockWeight

\* block_partition and transfer_leaves_to_final_blocktree have returned on
\* every rank.
Balanced == \A r \in Ranks : pc[r] = "balanced"

\* C6: after block_partition and transfer_leaves_to_final_blocktree with the q
\* of block_partition, every leaf a rank holds has its block in that rank's
\* local blocktree.
C6_LeavesFollowBlocks ==
    Balanced =>
        \A r \in Ranks :
            \A i \in DOMAIN local_leaves[r] :
                local_leaves[r][i].block \in Range(local_blocktree[r])

\* C6 witness: a rank gave a block with a leaf to the rank before it, which
\* now holds that leaf, and kept a leaf of its own.
C6_Witness ==
    /\ Balanced
    /\ size >= 2
    /\ \E r \in Ranks :
           /\ \E i \in DOMAIN local_leaves[prev_rank(r)] :
                  local_leaves[prev_rank(r)][i].block \in Range(q[r])
           /\ \E i \in DOMAIN local_leaves[r] :
                  local_leaves[r][i].block \notin Range(q[next_rank(r)])

(***************************************************************************)
(* The functions of morton.rs and tree.rs on keys, each called on its own: *)
(* `args` holds the keys the call is given and `ret` what it returned.     *)
(***************************************************************************)
\* The keys of level l: the root, and the children of the keys of level l - 1.
RECURSIVE KeysAt(_)
KeysAt(l) ==
    IF l = 0 THEN {<<0, 0, 0, 0>>}
    ELSE UNION {Range(find_children(k)) : k \in KeysAt(l - 1)}

\* The keys of the tree, of every level from the root to depth.
TreeKeys == UNION {KeysAt(l) : l \in 0..depth}

\* PartialOrd for Key: Equal when equal, else Less or Greater by less_than.
partial_cmp(a, b) ==
    IF equal(a, b) THEN "Equal"
    ELSE IF less_than(a, b) THEN "Less"
    ELSE "Greater"

\* a < b under Key's PartialOrd.
lt(a, b) == partial_cmp(a, b) = "Less"

\* The side of a cell of level l, in cells of level depth.
Side(l) == Pow2(depth - l)

\* The cell of key a contains the cell of key b (a is b or an ancestor of b).
CellContains(a, b) ==
    /\ a[4] <= b[4]
    /\ \A i \in 1..3 : a[i] <= b[i] /\ b[i] < a[i] + Side(a[4])

\* complete_region(a, b, depth) called on its own.
CompleteRegion(r) ==
    /\ pc[r] = "complete_region"
    /\ ret' = complete_region(args[1], args[2])
    /\ pc' = [pc EXCEPT ![r] = "returned"]
    /\ UNCHANGED <<size, sorted, build, round, nrecv, input, points,
                   local_leaves, local_samples, buckets, buckets_points,
                   received_leaves, received_points, chan, seeds,
                   local_blocktree, weights, q, received_blocks, msg, blocks,
                   to_split, niter, args>>

\* Every pair of keys a < b of the tree.
InitRegion ==
    /\ size = 1
    /\ sorted = TRUE
    /\ build = "release"
    /\ pc = [r \in {0} |-> "complete_region"]
    /\ round = [r \in {0} |-> 0]
    /\ nrecv = [r \in {0} |-> 0]
    /\ input = [r \in {0} |-> <<>>]
    /\ points = [r \in {0} |-> <<>>]
    /\ local_leaves = [r \in {0} |-> <<>>]
    /\ local_samples = [r \in {0} |-> <<>>]
    /\ buckets = [r \in {0} |-> <<>>]
    /\ buckets_points = [r \in {0} |-> <<>>]
    /\ received_leaves = [r \in {0} |-> <<>>]
    /\ received_points = [r \in {0} |-> <<>>]
    /\ chan = [s \in {0} |-> [d \in {0} |-> <<>>]]
    /\ seeds = [r \in {0} |-> <<>>]
    /\ local_blocktree = [r \in {0} |-> <<>>]
    /\ weights = [r \in {0} |-> <<>>]
    /\ q = [r \in {0} |-> <<>>]
    /\ received_blocks = [r \in {0} |-> <<>>]
    /\ msg = [r \in {0} |-> <<>>]
    /\ blocks = [r \in {0} |-> <<>>]
    /\ to_split = [r \in {0} |-> {}]
    /\ niter = [r \in {0} |-> 0]
    /\ args \in {p \in TreeKeys \X TreeKeys : lt(p[1], p[2])}
    /\ ret = <<>>

NextRegion == \E r \in Ranks : CompleteRegion(r)

SpecRegion == InitRegion /\ [][NextRegion]_vars

\* C11: for two depth-level keys a < b, every depth-level key c with
\* a <= c <= b has exactly one ancestor-or-self in complete_region(a, b)
\* united with {a, b}.
C11_RegionCoverage ==
    (pc[0] = "returned" /\ args[1][4] = depth /\ args[2][4] = depth) =>
        \A c \in DepthCells :
            (KeyLeq(args[1], c) /\ KeyLeq(c, args[2])) =>
                Cardinality({k \in Range(ret) \cup {args[1], args[2]} :
                                CellContains(k, c)}) = 1

\* C11 witness: the region between two depth-level keys has been returned and
\* holds keys of two levels.
C11_Witness ==
    /\ pc[0] = "returned"
    /\ args[1][4] = depth /\ args[2][4] = depth
    /\ \E i, j \in DOMAIN ret : ret[i][4] = depth /\ ret[j][4] < depth

\* C12: for keys a < b, complete_region(a, b) returns keys in strictly
\* ascending order, each strictly between a and b, none equal to or an ancestor
\* of a or b, none an ancestor of another returned key, and all of them
\* descendants of the finest common ancestor of a and b.
C12_RegionLinearBetween ==
    pc[0] = "returned" =>
        /\ \A i \in 1..(Len(ret) - 1) : lt(ret[i], ret[i + 1])
        /\ \A i \in DOMAIN ret :
               /\ lt(args[1], ret[i]) /\ lt(ret[i], args[2])
               /\ ~CellContains(ret[i], args[1]) /\ ~CellContains(ret[i], args[2])
               /\ \A j \in DOMAIN ret : j # i => ~CellContains(ret[i], ret[j])
               /\ ret[i] # find_finest_common_ancestor(args[1], args[2])
               /\ CellContains(find_finest_common_ancestor(args[1], args[2]), ret[i])

\* C12 witness: a region of several keys between a key and a key that is not
\* of its level has been returned.
C12_Witness ==
    /\ pc[0] = "returned"
    /\ args[1][4] # args[2][4]
    /\ Len(ret) >= 3

(***************************************************************************)
(* morton.rs: the order of keys, Ord::cmp called on its own on every two   *)
(* keys whose anchors are cells of level depth, of any level.              *)
(***************************************************************************)
AnchorKeys ==
    {<<x, y, z, l>> : x \in 0..(Pow2(depth) - 1), y \in 0..(Pow2(depth) - 1),
                      z \in 0..(Pow2(depth) - 1), l \in 0..depth}

\* a.cmp(b) and b.cmp(a).
Cmp(r) ==
    /\ pc[r] = "cmp"
    /\ ret' = <<partial_cmp(args[1], args[2]), partial_cmp(args[2], args[1])>>
    /\ pc' = [pc EXCEPT ![r] = "returned"]
    /\ UNCHANGED <<size, sorted, build, round, nrecv, input, points,
                   local_leaves, local_samples, buckets, buckets_points,
                   received_leaves, received_points, chan, seeds,
                   local_blocktree, weights, q, received_blocks, msg, blocks,
                   to_split, niter, args>>

InitOrder ==
    /\ size = 1
    /\ sorted = TRUE
    /\ build = "release"
    /\ pc = [r \in {0} |-> "cmp"]
    /\ round = [r \in {0} |-> 0]
    /\ nrecv = [r \in {0} |-> 0]
    /\ input = [r \in {0} |-> <<>>]
    /\ points = [r \in {0} |-> <<>>]
    /\ local_leaves = [r \in {0} |-> <<>>]
    /\ local_samples = [r \in {0} |-> <<>>]
    /\ buckets = [r \in {0} |-> <<>>]
    /\ buckets_points = [r \in {0} |-> <<>>]
    /\ received_leaves = [r \in {0} |-> <<>>]
    /\ received_points = [r \in {0} |-> <<>>]
    /\ chan = [s \in {0} |-> [d \in {0} |-> <<>>]]
    /\ seeds = [r \in {0} |-> <<>>]
    /\ local_blocktree = [r \in {0} |-> <<>>]
    /\ weights = [r \in {0} |-> <<>>]
    /\ q = [r \in {0} |-> <<>>]
    /\ received_blocks = [r \in {0} |-> <<>>]
    /\ msg = [r \in {0} |-> <<>>]
    /\ blocks = [r \in {0} |-> <<>>]
    /\ to_split = [r \in {0} |-> {}]
    /\ niter = [r \in {0} |-> 0]
    /\ args \in AnchorKeys \X AnchorKeys
    /\ ret = <<>>

NextOrder == \E r \in Ranks : Cmp(r)

SpecOrder == InitOrder /\ [][NextOrder]_vars

\* The number of the truth values of a tuple that are TRUE.
CountTrue(t) == Cardinality({n \in DOMAIN t : t[n]})

\* C13: for any two keys a, b exactly one of a < b, a == b, b < a holds under
\* Key's Ord, a == b iff all four components are equal, and the order is
\* transitive.
C13_KeyTotalOrder ==
    pc[0] = "returned" =>
        /\ CountTrue(<<ret[1] = "Less", ret[1] = "Equal", ret[2] = "Less">>) = 1
        /\ (ret[1] = "Equal") <=> (\A i \in 1..4 : args[1][i] = args[2][i])
        /\ ret[1] = "Less" =>
               \A c \in AnchorKeys : lt(args[2], c) => lt(args[1], c)

\* C13 witness: two keys of different anchors and levels have been compared,
\* the first is the lesser, and a third key is greater than the second.
C13_Witness ==
    /\ pc[0] = "returned"
    /\ ret[1] = "Less"
    /\ args[1][4] > args[2][4]
    /\ \E c \in AnchorKeys : lt(args[2], c)

\* The bit-interleaved Morton code of an anchor: of every bit position the
\* bit of x is the most significant, then y, then z.
RECURSIVE Interleave(_, _, _)
Interleave(x, y, z) ==
    IF x = 0 /\ y = 0 /\ z = 0 THEN 0
    ELSE 4 * (x % 2) + 2 * (y % 2) + (z % 2)
         + 8 * Interleave(x \div 2, y \div 2, z \div 2)

MortonCode(k) == Interleave(k[1], k[2], k[3])

\* C14: for two keys of equal level, a < b iff the bit-interleaved Morton code
\* of a's anchor is smaller than that of b's anchor.
C14_MortonOrder ==
    (pc[0] = "returned" /\ args[1][4] = args[2][4]) =>
        ((ret[1] = "Less") <=> (MortonCode(args[1]) < MortonCode(args[2])))

\* C14 witness: two keys of one level have been compared whose anchors differ
\* on all axes, the lesser being greater on the y and z axes.
C14_Witness ==
    /\ pc[0] = "returned"
    /\ args[1][4] = args[2][4]
    /\ ret[1] = "Less"
    /\ args[1][2] > args[2][2] /\ args[1][3] > args[2][3]

\* The descendants of a key among the keys of the tree.
Descendants(b) == {d \in TreeKeys : d # b /\ CellContains(b, d)}

\* C15: every key is less than each of its descendants, and for keys
\* a < b < c of the tree where c is not a descendant of b, every descendant d
\* of b satisfies a < d < c.
C15_PreOrder ==
    (pc[0] = "returned" /\ args[1] \in TreeKeys /\ args[2] \in TreeKeys) =>
        /\ args[2] \in Descendants(args[1]) => ret[1] = "Less"
        /\ ret[1] = "Less" =>
               \A d \in Descendants(args[2]) :
                   \A c \in TreeKeys \ Descendants(args[2]) :
                       lt(args[2], c) => lt(args[1], d) /\ lt(d, c)

\* C15 witness: a key has been compared with a greater key of the tree that
\* has descendants and is not its descendant, and a greater key follows that is
\* no descendant of the second.
C15_Witness ==
    /\ pc[0] = "returned"
    /\ args[1] \in TreeKeys /\ args[2] \in TreeKeys
    /\ ret[1] = "Less"
    /\ args[2] \notin Descendants(args[1])
    /\ Descendants(args[2]) # {}
    /\ \E c \in TreeKeys \ Descendants(args[2]) : lt(args[2], c)

(***************************************************************************)
(* morton.rs: find_parent, find_children, find_ancestors,                  *)
(* find_finest_common_ancestor and the deepest descendants, each called on *)
(* its own on keys of the tree.  `ret` names the function and its value.   *)
(***************************************************************************)
Return(r, fn, val) ==
    /\ ret' = [fn |-> fn, val |-> val]
    /\ pc' = [pc EXCEPT ![r] = "returned"]

FindParent(r) ==
    /\ pc[r] = "call"
    /\ Return(r, "find_parent", find_parent(args[1]))
    /\ UNCHANGED <<size, sorted, build, round, nrecv, input, points,
                   local_leaves, local_samples, buckets, buckets_points,
                   received_leaves, received_points, chan, seeds,
                   local_blocktree, weights, q, received_blocks, msg, blocks,
                   to_split, niter, args>>

\* find_children of a key of level depth computes depth - (depth + 1) in u64:
\* a debug build panics there, a release build wraps.
FindChildren(r) ==
    /\ pc[r] = "call"
    /\ IF args[1][4] >= depth /\ build = "debug"
       THEN /\ pc' = [pc EXCEPT ![r] = "panic"]
            /\ UNCHANGED ret
       ELSE Return(r, "find_children", find_children(args[1]))
    /\ UNCHANGED <<size, sorted, build, round, nrecv, input, points,
                   local_leaves, local_samples, buckets, buckets_points,
                   received_leaves, received_points, chan, seeds,
                   local_blocktree, weights, q, received_blocks, msg, blocks,
                   to_split, niter, args>>

FindAncestors(r) ==
    /\ pc[r] = "call"
    /\ Return(r, "find_ancestors", find_ancestors(args[1]))
    /\ UNCHANGED <<size, sorted, build, round, nrecv, input, points,
                   local_leaves, local_samples, buckets, buckets_points,
                   received_leaves, received_points, chan, seeds,
                   local_blocktree, weights, q, received_blocks, msg, blocks,
                   to_split, niter, args>>

FindFinestCommonAncestor(r) ==
    /\ pc[r] = "call"
    /\ Return(r, "find_finest_common_ancestor",
              find_finest_common_ancestor(args[1], args[2]))
    /\ UNCHANGED <<size, sorted, build, round, nrecv, input, points,
                   local_leaves, local_samples, buckets, buckets_points,
                   received_leaves, received_points, chan, seeds,
                   local_blocktree, weights, q, received_blocks, msg, blocks,
                   to_split, niter, args>>

FindDeepestFirstDescendent(r) ==
    /\ pc[r] = "call"
    /\ Return(r, "find_deepest_first_descendent",
              find_deepest_first_descendent(args[1]))
    /\ UNCHANGED <<size, sorted, build, round, nrecv, input, points,
                   local_leaves, local_samples, buckets, buckets_points,
                   received_leaves, received_points, chan, seeds,
                   local_blocktree, weights, q, received_blocks, msg, blocks,
                   to_split, niter, args>>

FindDeepestLastDescendent(r) ==
    /\ pc[r] = "call"
    /\ Return(r, "find_deepest_last_descendent",
              find_deepest_last_descendent(args[1]))
    /\ UNCHANGED <<size, sorted, build, round, nrecv, input, points,
                   local_leaves, local_samples, buckets, buckets_points,
                   received_leaves, received_points, chan, seeds,
                   local_blocktree, weights, q, received_blocks, msg, blocks,
                   to_split, niter, args>>

InitNav ==
    /\ size = 1
    /\ sorted = TRUE
    /\ build \in {"debug", "release"}
    /\ pc = [r \in {0} |-> "call"]
    /\ round = [r \in {0} |-> 0]
    /\ nrecv = [r \in {0} |-> 0]
    /\ input = [r \in {0} |-> <<>>]
    /\ points = [r \in {0} |-> <<>>]
    /\ local_leaves = [r \in {0} |-> <<>>]
    /\ local_samples = [r \in {0} |-> <<>>]
    /\ buckets = [r \in {0} |-> <<>>]
    /\ buckets_points = [r \in {0} |-> <<>>]
    /\ received_leaves = [r \in {0} |-> <<>>]
    /\ received_points = [r \in {0} |-> <<>>]
    /\ chan = [s \in {0} |-> [d \in {0} |-> <<>>]]
    /\ seeds = [r \in {0} |-> <<>>]
    /\ local_blocktree = [r \in {0} |-> <<>>]
    /\ weights = [r \in {0} |-> <<>>]
    /\ q = [r \in {0} |-> <<>>]
    /\ received_blocks = [r \in {0} |-> <<>>]
    /\ msg = [r \in {0} |-> <<>>]
    /\ blocks = [r \in {0} |-> <<>>]
    /\ to_split = [r \in {0} |-> {}]
    /\ niter = [r \in {0} |-> 0]
    /\ args \in TreeKeys \X TreeKeys
    /\ ret = <<>>

NextNav ==
    \E r \in Ranks :
        \/ FindParent(r)
        \/ FindChildren(r)
        \/ FindAncestors(r)
        \/ FindFinestCommonAncestor(r)
        \/ FindDeepestFirstDescendent(r)
        \/ FindDeepestLastDescendent(r)

SpecNav == InitNav /\ [][NextNav]_vars

\* The function fn has returned.
Returned(fn) == pc[0] = "returned" /\ ret.fn = fn

\* C16: a non-root key k is one of the eight keys of
\* find_children(find_parent(k)), and every key of find_children(p) for p of
\* level < depth has the parent p.
C16_ParentChildInverse ==
    /\ (Returned("find_parent") /\ args[1][4] > 0) =>
           args[1] \in Range(find_children(ret.val))
    /\ (Returned("find_children") /\ args[1][4] < depth) =>
           /\ Len(ret.val) = 8
           /\ Cardinality(Range(ret.val)) = 8
           /\ \A i \in DOMAIN ret.val : find_parent(ret.val[i]) = args[1]

\* C16 witness: the parent of a key of level depth whose anchor its parent
\* does not keep has been returned.
C16_Witness ==
    /\ Returned("find_parent")
    /\ args[1][4] = depth
    /\ \A i \in 1..3 : ret.val[i] # args[1][i]

\* C17: for a key k of level L > 0, find_ancestors returns L keys, one of
\* each level L-1 down to 0, the last the root, each a proper ancestor of k.
C17_AncestorContainment ==
    (Returned("find_ancestors") /\ args[1][4] > 0) =>
        /\ Len(ret.val) = args[1][4]
        /\ ret.val[Len(ret.val)] = <<0, 0, 0, 0>>
        /\ \A i \in DOMAIN ret.val :
               /\ ret.val[i][4] = args[1][4] - i
               /\ ret.val[i] # args[1]
               /\ CellContains(ret.val[i], args[1])

\* C17 witness: the ancestors of a key of level depth away from the origin
\* have been returned.
C17_Witness ==
    /\ Returned("find_ancestors")
    /\ args[1][4] = depth
    /\ Len(ret.val) = depth
    /\ ret.val[1][1] # 0

\* The keys of the tree that are proper ancestors of both a and b.
CommonAncestors(a, b) ==
    {c \in TreeKeys : c # a /\ c # b /\ CellContains(c, a) /\ CellContains(c, b)}

\* C18: find_finest_common_ancestor(a, b) returns the key of greatest level
\* among the proper ancestors of both a and b.
C18_FinestCommonAncestor ==
    (Returned("find_finest_common_ancestor")
     /\ CommonAncestors(args[1], args[2]) # {}) =>
        /\ ret.val \in CommonAncestors(args[1], args[2])
        /\ \A c \in CommonAncestors(args[1], args[2]) : c[4] <= ret.val[4]

\* C18 witness: the finest common ancestor of two different keys has been
\* returned and is not the root.
C18_Witness ==
    /\ Returned("find_finest_common_ancestor")
    /\ args[1] # args[2]
    /\ ret.val[4] > 0

\* The cells of level depth inside the cell of key k.
DepthDescendants(k) == {c \in DepthCells : CellContains(k, c)}

\* C19: the deepest first and last descendants of a key k are of level depth
\* and inside k; the first has k's anchor and is the least, the last is the
\* greatest, of the depth-level descendants of k.
C19_DeepestDescendants ==
    /\ Returned("find_deepest_first_descendent") =>
           /\ ret.val \in DepthDescendants(args[1])
           /\ \A i \in 1..3 : ret.val[i] = args[1][i]
           /\ \A d \in DepthDescendants(args[1]) : KeyLeq(ret.val, d)
    /\ Returned("find_deepest_last_descendent") =>
           /\ ret.val \in DepthDescendants(args[1])
           /\ \A d \in DepthDescendants(args[1]) : KeyLeq(d, ret.val)

\* C19 witness: the deepest last descendant of the root has been returned.
C19_Witness ==
    /\ Returned("find_deepest_last_descendent")
    /\ args[1] = <<0, 0, 0, 0>>
    /\ ret.val[4] = depth

(***************************************************************************)
(* tree.rs: linearise.  The result is [panic, linearised]: on an empty     *)
(* list keys.len() - 1 underflows, which panics in a debug build and wraps *)
(* in a release build, where keys[0] is then out of bounds and panics.     *)
(***************************************************************************)
RECURSIVE LineariseLoop(_, _)
LineariseLoop(keys, i) ==
    IF i > Len(keys) - 1 THEN <<>>
    ELSE (IF keys[i] \notin Range(find_ancestors(keys[i + 1]))
          THEN <<keys[i]>> ELSE <<>>)
         \o LineariseLoop(keys, i + 1)

linearise(keys) ==
    IF Len(keys) = 0 THEN [panic |-> TRUE, linearised |-> <<>>]
    ELSE [panic |-> FALSE, linearised |-> LineariseLoop(keys, 1)]

\* linearise(S) on a sorted list S.
Linearise(r) ==
    /\ pc[r] = "linearise"
    /\ IF linearise(args).panic
       THEN /\ pc' = [pc EXCEPT ![r] = "panic"]
            /\ UNCHANGED ret
       ELSE /\ pc' = [pc EXCEPT ![r] = "linearise_again"]
            /\ ret' = <<linearise(args).linearised>>
    /\ UNCHANGED <<size, sorted, build, round, nrecv, input, points,
                   local_leaves, local_samples, buckets, buckets_points,
                   received_leaves, received_points, chan, seeds,
                   local_blocktree, weights, q, received_blocks, msg, blocks,
                   to_split, niter, args>>

\* linearise(linearise(S)).
LineariseAgain(r) ==
    /\ pc[r] = "linearise_again"
    /\ IF linearise(ret[1]).panic
       THEN /\ pc' = [pc EXCEPT ![r] = "panic"]
            /\ UNCHANGED ret
       ELSE /\ pc' = [pc EXCEPT ![r] = "returned"]
            /\ ret' = Append(ret, linearise(ret[1]).linearised)
    /\ UNCHANGED <<size, sorted, build, round, nrecv, input, points,
                   local_leaves, local_samples, buckets, buckets_points,
                   received_leaves, received_points, chan, seeds,
                   local_blocktree, weights, q, received_blocks, msg, blocks,
                   to_split, niter, args>>

LineariseKeyChoice ==
    {<<0, 0, 0, 0>>, <<0, 0, 0, 1>>, <<0, 0, 0, depth>>, <<1, 0, 0, depth>>,
     <<Pow2(depth - 1), 0, 0, 1>>, <<Pow2(depth) - 1, 0, 0, depth>>}

IsSortedKeys(s) == \A i \in 1..(Len(s) - 1) : KeyLeq(s[i], s[i + 1])

\* Every sorted list of at most MaxLen keys of the choice.
InitLinearise ==
    /\ size = 1
    /\ sorted = TRUE
    /\ build = "release"
    /\ pc = [r \in {0} |-> "linearise"]
    /\ round = [r \in {0} |-> 0]
    /\ nrecv = [r \in {0} |-> 0]
    /\ input = [r \in {0} |-> <<>>]
    /\ points = [r \in {0} |-> <<>>]
    /\ local_leaves = [r \in {0} |-> <<>>]
    /\ local_samples = [r \in {0} |-> <<>>]
    /\ buckets = [r \in {0} |-> <<>>]
    /\ buckets_points = [r \in {0} |-> <<>>]
    /\ received_leaves = [r \in {0} |-> <<>>]
    /\ received_points = [r \in {0} |-> <<>>]
    /\ chan = [s \in {0} |-> [d \in {0} |-> <<>>]]
    /\ seeds = [r \in {0} |-> <<>>]
    /\ local_blocktree = [r \in {0} |-> <<>>]
    /\ weights = [r \in {0} |-> <<>>]
    /\ q = [r \in {0} |-> <<>>]
    /\ received_blocks = [r \in {0} |-> <<>>]
    /\ msg = [r \in {0} |-> <<>>]
    /\ blocks = [r \in {0} |-> <<>>]
    /\ to_split = [r \in {0} |-> {}]
    /\ niter = [r \in {0} |-> 0]
    /\ args \in {s \in SeqsUpTo(LineariseKeyChoice, MaxLen) : IsSortedKeys(s)}
    /\ ret = <<>>

NextLinearise ==
    \E r \in Ranks :
        \/ Linearise(r)
        \/ LineariseAgain(r)

SpecLinearise == InitLinearise /\ [][NextLinearise]_vars

\* C20: for every sorted key list S, linearise(linearise(S)) returns and
\* equals linearise(S).
C20_LineariseIdempotent ==
    /\ pc[0] = "returned" => ret[2] = ret[1]
    /\ ~(pc[0] = "panic" /\ Len(ret) = 1)

\* C21: for any sorted input key list, the output of linearise holds no key
\* that is a proper ancestor of another input key, so the output is linear.
C21_LineariseLinear ==
    Len(ret) >= 1 =>
        \A i \in DOMAIN ret[1] : \A j \in DOMAIN args :
            ~(ret[1][i] # args[j] /\ CellContains(ret[1][i], args[j]))

\* keys_to_leaves has returned on rank r: the rank waits in the all_gather.
KeysToLeavesReturned(r) == pc[r] = "all_gather"

\* C22: keys_to_leaves returns exactly one leaf for each distinct key of the
\* points, each with the number of the points of its key, and the npoints of
\* all leaves sum to the number of the points.
C22_KeysToLeavesConservation ==
    \A r \in Ranks :
        KeysToLeavesReturned(r) =>
            /\ LeafKeys(local_leaves[r]) = {points[r][i].key : i \in DOMAIN points[r]}
            /\ \A i, j \in DOMAIN local_leaves[r] :
                   local_leaves[r][i].key = local_leaves[r][j].key => i = j
            /\ \A i \in DOMAIN local_leaves[r] :
                   local_leaves[r][i].npoints
                       = Len(PointsWithKey(points[r], local_leaves[r][i].key))
            /\ SumNpoints(local_leaves[r]) = Len(input[r])

\* C22 witness: keys_to_leaves has returned two leaves for three points, two
\* of which share a cell.
C22_Witness ==
    \E r \in Ranks :
        /\ KeysToLeavesReturned(r)
        /\ Len(input[r]) = 3
        /\ Len(local_leaves[r]) = 2

(***************************************************************************)
(* morton.rs: encode_point called on its own on two points of the domain.  *)
(* A coordinate counts half cells of level depth from the corner x0 - r0,  *)
(* so the domain [x0 - r0, x0 + r0) is 0..2 * 2^depth - 1 on each axis.    *)
(***************************************************************************)
DomainPoints ==
    {Point(x, y, z) : x \in 0..(2 * Pow2(depth) - 1), y \in 0..(2 * Pow2(depth) - 1),
                      z \in 0..(2 * Pow2(depth) - 1)}

EncodePoint(r) ==
    /\ pc[r] = "encode_point"
    /\ ret' = <<encode_point(args[1]).key, encode_point(args[2]).key>>
    /\ pc' = [pc EXCEPT ![r] = "returned"]
    /\ UNCHANGED <<size, sorted, build, round, nrecv, input, points,
                   local_leaves, local_samples, buckets, buckets_points,
                   received_leaves, received_points, chan, seeds,
                   local_blocktree, weights, q, received_blocks, msg, blocks,
                   to_split, niter, args>>

InitEncode ==
    /\ size = 1
    /\ sorted = TRUE
    /\ build = "release"
    /\ pc = [r \in {0} |-> "encode_point"]
    /\ round = [r \in {0} |-> 0]
    /\ nrecv = [r \in {0} |-> 0]
    /\ input = [r \in {0} |-> <<>>]
    /\ points = [r \in {0} |-> <<>>]
    /\ local_leaves = [r \in {0} |-> <<>>]
    /\ local_samples = [r \in {0} |-> <<>>]
    /\ buckets = [r \in {0} |-> <<>>]
    /\ buckets_points = [r \in {0} |-> <<>>]
    /\ received_leaves = [r \in {0} |-> <<>>]
    /\ received_points = [r \in {0} |-> <<>>]
    /\ chan = [s \in {0} |-> [d \in {0} |-> <<>>]]
    /\ seeds = [r \in {0} |-> <<>>]
    /\ local_blocktree = [r \in {0} |-> <<>>]
    /\ weights = [r \in {0} |-> <<>>]
    /\ q = [r \in {0} |-> <<>>]
    /\ received_blocks = [r \in {0} |-> <<>>]
    /\ msg = [r \in {0} |-> <<>>]
    /\ blocks = [r \in {0} |-> <<>>]
    /\ to_split = [r \in {0} |-> {}]
    /\ niter = [r \in {0} |-> 0]
    /\ args \in DomainPoints \X DomainPoints
    /\ ret = <<>>

NextEncode == \E r \in Ranks : EncodePoint(r)

SpecEncode == InitEncode /\ [][NextEncode]_vars

\* The point p lies in the cell of the depth-level key c, whose side is two
\* half cells.
InCell(p, c) ==
    /\ 2 * c[1] <= p.x /\ p.x < 2 * c[1] + 2
    /\ 2 * c[2] <= p.y /\ p.y < 2 * c[2] + 2
    /\ 2 * c[3] <= p.z /\ p.z < 2 * c[3] + 2

\* The deepest cell a point of the domain lies in.
CellOf(p) == CHOOSE c \in DepthCells : InCell(p, c)

\* C23: encode_point gives a point of the domain the anchor
\* floor((p - (x0 - r0)) / s) on each axis and the level depth; two points of
\* one deepest cell get equal keys, and a point in a cell Morton-less than
\* another point's cell gets the smaller key.
C23_EncodeMonotone ==
    pc[0] = "returned" =>
        /\ ret[1] = CellOf(args[1]) /\ ret[2] = CellOf(args[2])
        /\ CellOf(args[1]) = CellOf(args[2]) => ret[1] = ret[2]
        /\ MortonCode(CellOf(args[1])) < MortonCode(CellOf(args[2])) =>
               lt(ret[1], ret[2])

\* C23 witness: two points of different cells have been encoded, the first in
\* the Morton-lesser cell though it is the greater on the y and z axes.
C23_Witness ==
    /\ pc[0] = "returned"
    /\ MortonCode(CellOf(args[1])) < MortonCode(CellOf(args[2]))
    /\ args[1].y > args[2].y + 1 /\ args[1].z > args[2].z + 1

(***************************************************************************)
(* The order of the steps of unbalanced_tree.                              *)
(***************************************************************************)
\* The function of the driver a position of a rank lies in.
StepOf(label) ==
    CASE label \in {"sample_sort", "all_gather", "exchange_points", "barrier_points",
                    "exchange_leaves", "barrier_leaves", "sort_received"} -> "sample_sort"
      [] label \in {"coarse_send_leaves", "coarse_receive_leaves", "coarse_send_points",
                    "coarse_receive_points"} -> "transfer_leaves_to_coarse_blocktree"
      [] label \in {"complete_blocktree", "complete_blocktree_receive"} -> "complete_blocktree"
      [] label \in {"split_blocks", "split_scan", "split_keys"} -> "split_blocks"
      [] OTHER -> label

\* The steps of the driver in the order the data flow gives them.
DataFlowSteps ==
    <<"encode_points", "sample_sort", "unique_leaves", "find_seeds",
      "transfer_leaves_to_coarse_blocktree", "complete_blocktree",
      "assign_blocks_to_leaves", "find_block_weights", "block_partition",
      "transfer_leaves_to_final_blocktree", "split_blocks", "done">>

\* A step of rank r stays in its function, panics, or enters the function that
\* follows it in the data flow.
FollowsDataFlow(r) ==
    LET a == StepOf(pc[r])
        b == StepOf(pc'[r])
    IN  \/ b = a
        \/ b = "panic"
        \/ \E i \in 1..(Len(DataFlowSteps) - 1) :
               DataFlowSteps[i] = a /\ DataFlowSteps[i + 1] = b

\* C24: on every rank unbalanced_tree executes encode, sample_sort,
\* unique_leaves, find_seeds, transfer_leaves_to_coarse_blocktree,
\* complete_blocktree, assign_blocks_to_leaves, find_block_weights,
\* block_partition, transfer_leaves_to_final_blocktree and split_blocks in this
\* order: the load-balancing steps run between block assignment and splitting.
C24_DriverStepOrder == [][\A r \in Ranks : FollowsDataFlow(r)]_vars

\* Merging the leaves of some key takes that key above ncrit points.
MergeExceedsNcrit(leaves) ==
    \E k \in LeafKeys(leaves) :
        Len(WithKey(leaves, k)) >= 2 /\ SumNpoints(WithKey(leaves, k)) > ncrit

\* Every key's merged npoints is within ncrit.
MergedWithinNcrit(leaves) ==
    \A k \in LeafKeys(leaves) : SumNpoints(WithKey(leaves, k)) <= ncrit

\* C25: unique_leaves, given leaves, panics whenever merging the leaves that
\* share a key would give that key more than ncrit points, and does not panic
\* when every key's merged npoints is <= ncrit.
C25_UniquePanicsOnOverflow ==
    (pc[0] # "unique_leaves" /\ received_leaves[0] # <<>>) =>
        /\ MergeExceedsNcrit(received_leaves[0]) => pc[0] = "panic"
        /\ MergedWithinNcrit(received_leaves[0]) => UniqueReturned(0)

\* Some leaf key is the key of more than ncrit input points.
CapacityViolated == \E k \in InputKeys : InputCount(k, size) > ncrit

\* A step of split_blocks on rank r that splits a block takes a block above
\* level depth.
SplitsAboveDepth(r) ==
    (pc[r] = "split_keys" /\ to_split'[r] # to_split[r]) =>
        \A key \in to_split[r] \ to_split'[r] : key[4] < depth

\* Every block of the Tree of rank r holds at most ncrit points.
TreeWithinNcrit(r) ==
    \A key \in DOMAIN blocks[r] : SumNpoints(blocks[r][key]) <= ncrit

\* C26: when some leaf key holds more than ncrit points the run ends with an
\* error and returns no Tree; split_blocks never splits a block at level
\* depth, and no Tree with a cell of more than ncrit points is returned.
C26_CapacityViolationFatal ==
    /\ [](CapacityViolated => ~TreeReturned)
    /\ [](\A r \in Ranks : pc[r] = "done" => TreeWithinNcrit(r))
    /\ [][\A r \in Ranks : SplitsAboveDepth(r)]_vars

(***************************************************************************)
(* assign_blocks_to_leaves on its own: leaves of distinct keys in key      *)
(* order, not yet assigned, and any list of at most MaxLen block keys.     *)
(* args keeps what the function was called with.                           *)
(***************************************************************************)
AssignBlockChoice ==
    {<<0, 0, 0, 0>>, <<0, 0, 0, 1>>, <<0, 0, 0, depth>>, <<0, 0, Pow2(depth) \div 2, 1>>,
     <<Pow2(depth) \div 2, Pow2(depth) \div 2, Pow2(depth) \div 2, 1>>}

InitAssign ==
    /\ size = 1
    /\ sorted = TRUE
    /\ build = "release"
    /\ pc = [r \in {0} |-> "assign_blocks_to_leaves"]
    /\ round = [r \in {0} |-> 0]
    /\ nrecv = [r \in {0} |-> 0]
    /\ input = [r \in {0} |-> <<>>]
    /\ points = [r \in {0} |-> <<>>]
    /\ local_leaves \in [{0} -> {s \in SeqsUpTo(LeafChoice, MaxLen) :
                                       \A i \in 1..(Len(s) - 1) : less_than(s[i].key, s[i + 1].key)}]
    /\ local_samples = [r \in {0} |-> <<>>]
    /\ buckets = [r \in {0} |-> <<>>]
    /\ buckets_points = [r \in {0} |-> <<>>]
    /\ received_leaves = [r \in {0} |-> <<>>]
    /\ received_points = [r \in {0} |-> <<>>]
    /\ chan = [s \in {0} |-> [d \in {0} |-> <<>>]]
    /\ seeds = [r \in {0} |-> <<>>]
    /\ local_blocktree \in [{0} -> SeqsUpTo(AssignBlockChoice, MaxLen)]
    /\ weights = [r \in {0} |-> <<>>]
    /\ q = [r \in {0} |-> <<>>]
    /\ received_blocks = [r \in {0} |-> <<>>]
    /\ msg = [r \in {0} |-> <<>>]
    /\ blocks = [r \in {0} |-> <<>>]
    /\ to_split = [r \in {0} |-> {}]
    /\ niter = [r \in {0} |-> 0]
    /\ args = [leaves |-> local_leaves, points |-> points]
    /\ ret = <<>>

NextAssign == \E r \in Ranks : AssignBlocksToLeaves(r)

SpecAssign == InitAssign /\ [][NextAssign]_vars

\* assign_blocks_to_leaves has returned on rank r and the run goes on.
AssignReturned(r) == pc[r] = "split_blocks"

\* The blocktree holds the key of the leaf or one of its ancestors.
HasBlock(leaf, blocktree) ==
    \E b \in Range(blocktree) : b = leaf.key \/ b \in Range(find_ancestors(leaf.key))

\* C27: when a leaf has no ancestor-or-self in the blocktree passed to
\* assign_blocks_to_leaves, or the blocktree holds a block key twice, the run
\* ends with an error: it goes on past assign_blocks_to_leaves only with
\* distinct block keys and with no leaf's block left at the sentinel key.
C27_InvariantViolationFatal ==
    AssignReturned(0) =>
        /\ \A i, j \in DOMAIN local_blocktree[0] :
               local_blocktree[0][i] = local_blocktree[0][j] => i = j
        /\ \A i \in DOMAIN local_leaves[0] :
               /\ HasBlock(local_leaves[0][i], local_blocktree[0])
               /\ local_leaves[0][i].block # Key_default

(***************************************************************************)
(* encode_points and sample_sort where a rank may hold no point.           *)
(***************************************************************************)
InputsAny(n) ==
    {f \in [0..(n - 1) -> SeqsUpTo(PointChoice, MaxPoints - 1)] :
        TotalLen(f, n) <= MaxPoints}

InitSortAny ==
    \E n \in 1..MaxRanks :
        /\ size = n
        /\ sorted = TRUE
        /\ build = "release"
        /\ pc = [r \in 0..(n - 1) |-> "encode_points"]
        /\ round = [r \in 0..(n - 1) |-> 0]
        /\ nrecv = [r \in 0..(n - 1) |-> 0]
        /\ input \in InputsAny(n)
        /\ points = [r \in 0..(n - 1) |-> <<>>]
        /\ local_leaves = [r \in 0..(n - 1) |-> <<>>]
        /\ local_samples = [r \in 0..(n - 1) |-> <<>>]
        /\ buckets = [r \in 0..(n - 1) |-> <<>>]
        /\ buckets_points = [r \in 0..(n - 1) |-> <<>>]
        /\ received_leaves = [r \in 0..(n - 1) |-> <<>>]
        /\ received_points = [r \in 0..(n - 1) |-> <<>>]
        /\ chan = [s \in 0..(n - 1) |-> [d \in 0..(n - 1) |-> <<>>]]
        /\ seeds = [r \in 0..(n - 1) |-> <<>>]
        /\ local_blocktree = [r \in 0..(n - 1) |-> <<>>]
        /\ weights = [r \in 0..(n - 1) |-> <<>>]
        /\ q = [r \in 0..(n - 1) |-> <<>>]
        /\ received_blocks = [r \in 0..(n - 1) |-> <<>>]
        /\ msg = [r \in 0..(n - 1) |-> <<>>]
        /\ blocks = [r \in 0..(n - 1) |-> <<>>]
        /\ to_split = [r \in 0..(n - 1) |-> {}]
        /\ niter = [r \in 0..(n - 1) |-> 0]
        /\ args = <<>>
        /\ ret = <<>>

SpecSortAny == InitSortAny /\ [][NextSort]_vars

\* The first and the last cell of level depth.
FirstCell == <<0, 0, 0, depth>>

LastCell == <<Pow2(depth) - 1, Pow2(depth) - 1, Pow2(depth) - 1, depth>>

\* Two ranks, the leaf keys FirstCell and LastCell on rank 0, none on rank 1.
EmptyRankInput ==
    /\ size = 2
    /\ {encode_point(p).key : p \in Range(input[0])} = {FirstCell, LastCell}
    /\ input[1] = <<>>

\* C28: with two ranks and the leaf keys A, the first cell of level depth, and
\* B, the last, both on rank 0 while rank 1 holds no leaves, sample_sort
\* completes on both ranks, and afterwards rank 0 holds A and rank 1 holds B.
C28_EmptyRankSort ==
    EmptyRankInput =>
        /\ \A r \in Ranks : pc[r] # "panic"
        /\ SampleSortReturned =>
               /\ LeafKeys(received_leaves[0]) = {FirstCell}
               /\ LeafKeys(received_leaves[1]) = {LastCell}

\* The target interval [lo, hi) of the rank with 1-based id p.
TargetInterval(p) ==
    LET w == (total_weight + size - 1) \div size
        k == total_weight % size
    IN  IF p <= k THEN [lo |-> (p - 1) * (w + 1), hi |-> p * (w + 1)]
        ELSE [lo |-> (p - 1) * w + k, hi |-> p * w + k]

\* The places in rank r's blocktree of the blocks whose inclusive cumulative
\* weight lies in the target interval of id p.
BlocksOfId(r, p) ==
    {i \in DOMAIN local_blocktree[r] :
        /\ TargetInterval(p).lo <= local_cumulative_weights(r)[i]
        /\ local_cumulative_weights(r)[i] < TargetInterval(p).hi}

\* block_partition has filled q on every rank and exchanged nothing yet.
PartitionScanned == \A r \in Ranks : pc[r] = "partition_exchange" /\ round[r] = 0

\* C29: on the rank with 1-based id p that has a preceding rank, the q of
\* block_partition consists exactly of the local blocks whose inclusive
\* cumulative weight lies in the target interval of the preceding id p - 1.
C29_DonationSet ==
    PartitionScanned =>
        \A r \in Ranks \ {0} :
            /\ Range(q[r]) = {local_blocktree[r][i] : i \in BlocksOfId(r, r)}
            /\ Len(q[r]) = Cardinality(BlocksOfId(r, r))

(***************************************************************************)
(* encode_points and sample_sort on MaxRanksSort ranks with one point      *)
(* each, for the order in which a rank's receives match the sends.         *)
(***************************************************************************)
InitSortRanks ==
    /\ size = MaxRanksSort
    /\ sorted = TRUE
    /\ build = "release"
    /\ pc = [r \in 0..(MaxRanksSort - 1) |-> "encode_points"]
    /\ round = [r \in 0..(MaxRanksSort - 1) |-> 0]
    /\ nrecv = [r \in 0..(MaxRanksSort - 1) |-> 0]
    /\ input \in [0..(MaxRanksSort - 1) -> {<<p>> : p \in PointChoice}]
    /\ points = [r \in 0..(MaxRanksSort - 1) |-> <<>>]
    /\ local_leaves = [r \in 0..(MaxRanksSort - 1) |-> <<>>]
    /\ local_samples = [r \in 0..(MaxRanksSort - 1) |-> <<>>]
    /\ buckets = [r \in 0..(MaxRanksSort - 1) |-> <<>>]
    /\ buckets_points = [r \in 0..(MaxRanksSort - 1) |-> <<>>]
    /\ received_leaves = [r \in 0..(MaxRanksSort - 1) |-> <<>>]
    /\ received_points = [r \in 0..(MaxRanksSort - 1) |-> <<>>]
    /\ chan = [s \in 0..(MaxRanksSort - 1) |-> [d \in 0..(MaxRanksSort - 1) |-> <<>>]]
    /\ seeds = [r \in 0..(MaxRanksSort - 1) |-> <<>>]
    /\ local_blocktree = [r \in 0..(MaxRanksSort - 1) |-> <<>>]
    /\ weights = [r \in 0..(MaxRanksSort - 1) |-> <<>>]
    /\ q = [r \in 0..(MaxRanksSort - 1) |-> <<>>]
    /\ received_blocks = [r \in 0..(MaxRanksSort - 1) |-> <<>>]
    /\ msg = [r \in 0..(MaxRanksSort - 1) |-> <<>>]
    /\ blocks = [r \in 0..(MaxRanksSort - 1) |-> <<>>]
    /\ to_split = [r \in 0..(MaxRanksSort - 1) |-> {}]
    /\ niter = [r \in 0..(MaxRanksSort - 1) |-> 0]
    /\ args = <<>>
    /\ ret = <<>>

SpecSortRanks == InitSortRanks /\ [][NextSort]_vars

\* The number of places of a list that hold x.
CountIn(s, x) == Cardinality({i \in DOMAIN s : s[i] = x})

\* The buckets of the other ranks addressed to rank r, in rank order.
RECURSIVE Addressed(_, _, _)
Addressed(bkts, r, n) ==
    IF n = 0 THEN <<>>
    ELSE Addressed(bkts, r, n - 1) \o (IF n - 1 = r THEN <<>> ELSE bkts[n - 1][r + 1])

\* Two lists hold the same elements the same number of times.
SameElements(s, t) ==
    /\ Len(s) = Len(t)
    /\ \A i \in DOMAIN s : CountIn(s, s[i]) = CountIn(t, s[i])

\* What is in flight to rank d: nothing, unless d is in its own round of a
\* loop, and then from each other rank that has sent at most the one bucket
\* of that loop addressed to d.
InFlightTo(d) ==
    \A src \in Ranks :
        chan[src][d] # <<>> =>
            /\ src # d
            /\ round[d] = d
            /\ Len(chan[src][d]) = 1
            /\ \/ /\ pc[d] = "exchange_points"
                  /\ chan[src][d][1] = Msg("Point", buckets_points[src][d + 1])
               \/ /\ pc[d] = "exchange_leaves"
                  /\ chan[src][d][1] = Msg("Leaf", buckets[src][d + 1])

\* Rank r has left the receive loop of its round with the buckets addressed to
\* it and nothing else.
ReceivedAddressed(r) ==
    /\ (pc[r] = "barrier_points" /\ round[r] = r) =>
           /\ SameElements(received_points[r], Addressed(buckets_points, r, size))
           /\ \A src \in Ranks : chan[src][r] = <<>>
    /\ (pc[r] = "barrier_leaves" /\ round[r] = r) =>
           /\ SameElements(received_leaves[r], Addressed(buckets, r, size))
           /\ \A src \in Ranks : chan[src][r] = <<>>

\* C30: in round r of the points exchange rank r receives exactly the P - 1
\* point buckets addressed to it, and in round r of the leaves exchange
\* exactly the P - 1 leaf buckets; no receive that expects Points can match a
\* Leaf message or a message of another round, under every interleaving.
C30_MessageTypeSeparation ==
    \A r \in Ranks : InFlightTo(r) /\ ReceivedAddressed(r)

\* C30 witness: the last rank is in its round of the leaves exchange with the
\* leaf-bucket messages of two ranks in flight to it, one of them not empty.
C30_Witness ==
    /\ size >= 3
    /\ pc[size - 1] = "exchange_leaves" /\ round[size - 1] = size - 1
    /\ chan[0][size - 1] # <<>> /\ chan[1][size - 1] # <<>>
    /\ \E src \in {0, 1} : chan[src][size - 1][1].data # <<>>

\* A list of keys holds no key twice.
NoRepeatedKey(keys) == \A i, j \in DOMAIN keys : keys[i] = keys[j] => i = j

\* C31: the local blocktree complete_blocktree returns never contains the
\* same key twice.
C31_BlocktreeDistinct ==
    \A r \in Ranks :
        pc[r] = "assign_blocks_to_leaves" => NoRepeatedKey(local_blocktree[r])

(***************************************************************************)
(* The exchanges of block_partition and transfer_leaves_to_final_blocktree *)
(* where a send returns only when its message has been received: the send  *)
(* is posted, and the rank stays in it until the queue to its partner is   *)
(* empty again.                                                            *)
(***************************************************************************)
PartitionSendPost(r) ==
    /\ pc[r] = "partition_exchange"
    /\ round[r] = (IF SendsFirst(r) THEN 0 ELSE 1)
    /\ chan' = [chan EXCEPT ![r][previous_rank(r)] = Append(@, Msg("Key", q[r]))]
    /\ pc' = [pc EXCEPT ![r] = "partition_send"]
    /\ UNCHANGED <<size, sorted, build, round, nrecv, input, points,
                   local_leaves, local_samples, buckets, buckets_points,
                   received_leaves, received_points, seeds, local_blocktree,
                   weights, q, received_blocks, msg, blocks, to_split, niter,
                   args, ret>>

PartitionSendMatched(r) ==
    /\ pc[r] = "partition_send"
    /\ chan[r][previous_rank(r)] = <<>>
    /\ IF round[r] = 1
       THEN /\ local_blocktree' = [local_blocktree EXCEPT
                   ![r] = partitioned_blocktree(r, received_blocks[r])]
            /\ pc' = [pc EXCEPT ![r] = "transfer_leaves_to_final_blocktree"]
            /\ round' = [round EXCEPT ![r] = 0]
       ELSE /\ round' = [round EXCEPT ![r] = 1]
            /\ pc' = [pc EXCEPT ![r] = "partition_exchange"]
            /\ UNCHANGED local_blocktree
    /\ UNCHANGED <<size, sorted, build, nrecv, input, points, local_leaves,
                   local_samples, buckets, buckets_points, received_leaves,
                   received_points, chan, seeds, weights, q, received_blocks,
                   msg, blocks, to_split, niter, args, ret>>

TransferFinalSendPost(r) ==
    /\ pc[r] = "final_exchange"
    /\ round[r] = (IF SendsFirst(r) THEN 0 ELSE 1)
    /\ chan' = [chan EXCEPT ![r][prev_rank(r)] = Append(@, Msg("Leaf", msg[r]))]
    /\ pc' = [pc EXCEPT ![r] = "final_send"]
    /\ UNCHANGED <<size, sorted, build, round, nrecv, input, points,
                   local_leaves, local_samples, buckets, buckets_points,
                   received_leaves, received_points, seeds, local_blocktree,
                   weights, q, received_blocks, msg, blocks, to_split, niter,
                   args, ret>>

TransferFinalSendMatched(r) ==
    /\ pc[r] = "final_send"
    /\ chan[r][prev_rank(r)] = <<>>
    /\ round' = [round EXCEPT ![r] = @ + 1]
    /\ pc' = [pc EXCEPT ![r] = IF round[r] = 1 THEN "balanced" ELSE "final_exchange"]
    /\ UNCHANGED <<size, sorted, build, nrecv, input, points, local_leaves,
                   local_samples, buckets, buckets_points, received_leaves,
                   received_points, chan, seeds, local_blocktree, weights, q,
                   received_blocks, msg, blocks, to_split, niter, args, ret>>

NextLBSync ==
    \/ BlockPartitionScan
    \/ \E r \in Ranks : PartitionSendPost(r)
    \/ \E r \in Ranks : PartitionSendMatched(r)
    \/ \E r, src \in Ranks : PartitionReceive(r, src)
    \/ \E r \in Ranks : TransferFinalMsg(r)
    \/ \E r \in Ranks : TransferFinalSendPost(r)
    \/ \E r \in Ranks : TransferFinalSendMatched(r)
    \/ \E r, src \in Ranks : TransferFinalReceive(r, src)

SpecLBSync == InitLB /\ [][NextLBSync]_vars

\* Rank r waits: in a send whose message has not been received, in a receive
\* with nothing in flight to it, or in the scan that another rank has not
\* entered.
Waits(r) ==
    \/ pc[r] = "block_partition" /\ \E s \in Ranks : pc[s] # "block_partition"
    \/ pc[r] = "partition_send" /\ chan[r][previous_rank(r)] # <<>>
    \/ pc[r] = "final_send" /\ chan[r][prev_rank(r)] # <<>>
    \/ /\ pc[r] \in {"partition_exchange", "final_exchange"}
       /\ round[r] = (IF SendsFirst(r) THEN 1 ELSE 0)
       /\ \A src \in Ranks : chan[src][r] = <<>>

\* C32: the point-to-point exchanges complete on all ranks for every P >= 1
\* even when a send blocks until the matching receive is posted: until every
\* rank has returned, some rank does not wait.
C32_DeadlockFreedom ==
    Balanced \/ \E r \in Ranks : pc[r] # "balanced" /\ ~Waits(r)

(***************************************************************************)
(* find_seeds and transfer_leaves_to_coarse_blocktree on their own: the    *)
(* sorted leaves of a set of keys cut into one run for each rank, one      *)
(* point in each leaf.  args keeps what every rank was called with.        *)
(***************************************************************************)
\* The encoded points of a list of leaves, one at the corner of each cell.
PointsOfLeaves(leaves) ==
    [i \in DOMAIN leaves |->
        encode_point(Point(2 * leaves[i].key[1], 2 * leaves[i].key[2],
                           2 * leaves[i].key[3]))]

InitTransfer ==
    \E n \in 1..MaxRanksSort :
        \E S \in SUBSET BlocktreeKeyChoice :
            \E leaves \in Partitions(LeavesOfKeys(S), n) :
            /\ size = n
            /\ sorted = TRUE
            /\ build = "release"
            /\ pc = [r \in 0..(n - 1) |-> "find_seeds"]
            /\ round = [r \in 0..(n - 1) |-> 0]
            /\ nrecv = [r \in 0..(n - 1) |-> 0]
            /\ input = [r \in 0..(n - 1) |-> <<>>]
            /\ points = [r \in 0..(n - 1) |-> PointsOfLeaves(leaves[r])]
            /\ local_leaves = leaves
            /\ local_samples = [r \in 0..(n - 1) |-> <<>>]
            /\ buckets = [r \in 0..(n - 1) |-> <<>>]
            /\ buckets_points = [r \in 0..(n - 1) |-> <<>>]
            /\ received_leaves = [r \in 0..(n - 1) |-> <<>>]
            /\ received_points = [r \in 0..(n - 1) |-> <<>>]
            /\ chan = [s \in 0..(n - 1) |-> [d \in 0..(n - 1) |-> <<>>]]
            /\ seeds = [r \in 0..(n - 1) |-> <<>>]
            /\ local_blocktree = [r \in 0..(n - 1) |-> <<>>]
            /\ weights = [r \in 0..(n - 1) |-> <<>>]
            /\ q = [r \in 0..(n - 1) |-> <<>>]
            /\ received_blocks = [r \in 0..(n - 1) |-> <<>>]
            /\ msg = [r \in 0..(n - 1) |-> <<>>]
            /\ blocks = [r \in 0..(n - 1) |-> <<>>]
            /\ to_split = [r \in 0..(n - 1) |-> {}]
            /\ niter = [r \in 0..(n - 1) |-> 0]
            /\ args = [leaves |-> leaves,
                       points |-> [r \in 0..(n - 1) |-> PointsOfLeaves(leaves[r])]]
            /\ ret = <<>>

NextTransfer ==
    \/ \E r \in Ranks : FindSeeds(r)
    \/ \E r \in Ranks : CoarseSendLeaves(r)
    \/ \E r, src \in Ranks : CoarseReceiveLeaves(r, src)
    \/ \E r \in Ranks : CoarseSendPoints(r)
    \/ \E r, src \in Ranks : CoarseReceivePoints(r, src)

SpecTransfer == InitTransfer /\ [][NextTransfer]_vars

\* transfer_leaves_to_coarse_blocktree has returned on rank r.
TransferReturned(r) == pc[r] = "complete_blocktree"

\* The minimum seed of rank r, of the leaves it was called with.
MinSeedOf(r) ==
    IF r = 0 THEN KeyMin(LeafKeys(args.leaves[0]))
    ELSE KeyMin(Range(find_seeds(args.leaves[r])))

\* Of a list of leaves or points rank r was called with, what lies at or
\* above its minimum seed and what lies below.
Kept(s, r) == SelectSeq(s, LAMBDA l : ~lt(l.key, MinSeedOf(r)))

Given(s, r) == SelectSeq(s, LAMBDA l : lt(l.key, MinSeedOf(r)))

\* What rank r is to hold: its own from its minimum seed on, and what the
\* next rank has below its minimum seed.
Held(f, r) == Kept(f[r], r) \o (IF r < size - 1 THEN Given(f[r + 1], r + 1) ELSE <<>>)

\* C33: after transfer_leaves_to_coarse_blocktree rank r holds exactly its own
\* leaves with key >= min_seed_r together with the leaves of rank r + 1 with
\* key < min_seed_{r+1}, in ascending key order, and the points selected by
\* the same key test; no leaf or point is lost or duplicated.
C33_CoarseTransfer ==
    /\ \A r \in Ranks :
           TransferReturned(r) =>
               /\ SameElements(local_leaves[r], Held(args.leaves, r))
               /\ IsSortedLeaves(local_leaves[r])
               /\ SameElements(points[r], Held(args.points, r))
    /\ (\A r \in Ranks : TransferReturned(r)) =>
           /\ SameElements(Concat(local_leaves, 0, size - 1), Concat(args.leaves, 0, size - 1))
           /\ SameElements(Concat(points, 0, size - 1), Concat(args.points, 0, size - 1))

\* C33 witness: the transfer has returned on three ranks and the middle rank
\* holds a leaf it was given by the next rank after giving one to rank 0.
C33_Witness ==
    /\ size = 3
    /\ \A r \in Ranks : TransferReturned(r)
    /\ Given(args.leaves[1], 1) # <<>>
    /\ Given(args.leaves[2], 2) # <<>>
    /\ Kept(args.leaves[1], 1) # <<>>

\* find_seeds has returned on rank r.
SeedsFound(r) == pc[r] # "find_seeds"

\* The least and the greatest key of a non-empty set of keys.
LeastKey(S) == CHOOSE k \in S : \A m \in S : k = m \/ lt(k, m)

GreatestKey(S) == CHOOSE k \in S : \A m \in S : k = m \/ lt(m, k)

\* The completed region between the least and the greatest key of the leaves,
\* with the two keys.
SeedCandidates(leaves) ==
    Range(complete_region(LeastKey(LeafKeys(leaves)), GreatestKey(LeafKeys(leaves))))
        \cup {LeastKey(LeafKeys(leaves)), GreatestKey(LeafKeys(leaves))}

\* C34: find_seeds returns exactly the keys of complete_region(lmin, lmax)
\* united with {lmin, lmax} whose level is the minimum level of that set;
\* all seeds share one level and lie in [lmin, lmax].
C34_FindSeeds ==
    \A r \in Ranks :
        SeedsFound(r) =>
            LET all == SeedCandidates(args.leaves[r])
                lmin == LeastKey(LeafKeys(args.leaves[r]))
                lmax == GreatestKey(LeafKeys(args.leaves[r]))
            IN  /\ Range(seeds[r]) = {k \in all : \A m \in all : k[4] <= m[4]}
                /\ \A s, t \in Range(seeds[r]) : s[4] = t[4]
                /\ \A s \in Range(seeds[r]) : ~lt(s, lmin) /\ ~lt(lmax, s)

\* C34 witness: find_seeds has returned seeds coarser than the leaves on a rank
\* with several leaves, and has returned a single leaf's key on another.
C34_Witness ==
    /\ \E r \in Ranks : SeedsFound(r) /\ Len(args.leaves[r]) >= 2 /\ seeds[r][1][4] < depth
    /\ \E r \in Ranks : SeedsFound(r) /\ Len(args.leaves[r]) = 1

\* A blocktree is linear: it holds no key twice and no ancestor of a key.
LinearKeys(keys) ==
    /\ NoRepeatedKey(keys)
    /\ \A a, b \in Range(keys) : a \notin Range(find_ancestors(b))

\* C35: after assign_blocks_to_leaves with a linear blocktree, every leaf that
\* has an ancestor-or-self in the blocktree has that key as its block, its
\* finest ancestor present or its own key when that is a block; leaf keys and
\* npoints are unchanged.
C35_AssignBlocks ==
    (AssignReturned(0) /\ LinearKeys(local_blocktree[0])) =>
        /\ Len(local_leaves[0]) = Len(args.leaves[0])
        /\ \A i \in DOMAIN local_leaves[0] :
               LET leaf == local_leaves[0][i]
                   own == {b \in Range(local_blocktree[0]) :
                              b = leaf.key \/ b \in Range(find_ancestors(leaf.key))}
               IN  /\ leaf.key = args.leaves[0][i].key
                   /\ leaf.npoints = args.leaves[0][i].npoints
                   /\ own # {} =>
                          /\ leaf.block \in own
                          /\ \A b \in own : b[4] <= leaf.block[4]
                          /\ leaf.key \in own => leaf.block = leaf.key

\* C35 witness: with a linear blocktree one leaf got an ancestor as its block
\* and another its own key.
C35_Witness ==
    /\ AssignReturned(0)
    /\ LinearKeys(local_blocktree[0])
    /\ \E i, j \in DOMAIN local_leaves[0] :
           /\ local_leaves[0][i].block = local_leaves[0][i].key
           /\ local_leaves[0][j].block[4] < depth
           /\ local_leaves[0][j].block \in Range(find_ancestors(local_leaves[0][j].key))


\* Every block of a lower rank comes before every block of a higher rank.
RanksOrdered ==
    \A r1, r2 \in Ranks :
        r1 < r2 =>
            \A a \in Range(local_blocktree[r1]), b \in Range(local_blocktree[r2]) :
                less_than(a, b)

\* C36: block_partition, entered with the blocks of every lower rank before
\* those of every higher rank, returns with them so, the blocks that rank 0
\* gave to the last rank included.
C36_RangesStayOrdered == PartitionReturned => RanksOrdered


\* block_partition has returned on rank r.
PartitionReturnedOn(r) == pc[r] \notin {"block_partition", "partition_exchange"}

\* How often the blocktrees of all ranks hold block b.
RECURSIVE HeldCount(_, _, _)
HeldCount(trees, b, n) ==
    IF n = 0 THEN 0 ELSE CountIn(trees[n - 1], b) + HeldCount(trees, b, n - 1)

\* C37: block_partition returns on rank r with the blocktree it was called
\* with less the blocks of its q, followed by the q of the next rank; once it
\* has returned on all ranks every block is held as often as before, and a
\* block of rank r's q by the rank before r (the last rank for rank 0) only.
C37_BlocksConserved ==
    /\ \A r \in Ranks :
           PartitionReturnedOn(r) =>
               local_blocktree[r] =
                   SelectSeq(args.local_blocktree[r], LAMBDA b : b \notin Range(q[r]))
                   \o q[next_rank(r)]
    /\ (\A r \in Ranks : PartitionReturnedOn(r)) =>
           /\ \A b \in Range(Octants) :
                  HeldCount(local_blocktree, b, size)
                      = HeldCount(args.local_blocktree, b, size)
           /\ \A r, s \in Ranks :
                  \A i \in DOMAIN q[r] :
                      (q[r][i] \in Range(local_blocktree[s])) <=> (s = previous_rank(r))

\* C37 witness: on three ranks block_partition has returned everywhere, a
\* rank gave a block to the rank before it and rank 0 gave one to the last.
C37_Witness ==
    /\ size = 3
    /\ \A r \in Ranks : PartitionReturnedOn(r)
    /\ q[0] # <<>>
    /\ \E r \in Ranks \ {0} : q[r] # <<>>
    /\ \E r \in Ranks : Len(local_blocktree[r]) > Len(q[next_rank(r)])


\* The collectives of sample_sort rank r has called so far: all_gather_into,
\* then one barrier in each pass of the two loops over the ranks.  A rank
\* that panicked did so at gen_range, before all_gather_into.
CollectivesCalled(r) ==
    CASE pc[r] \in {"encode_points", "sample_sort", "panic"} -> 0
      [] pc[r] = "all_gather" -> 1
      [] pc[r] = "exchange_points" -> 1 + round[r]
      [] pc[r] = "barrier_points" -> 1 + round[r] + 1
      [] pc[r] = "exchange_leaves" -> 1 + size + round[r]
      [] pc[r] = "barrier_leaves" -> 1 + size + round[r] + 1
      [] OTHER -> 1 + 2 * size

\* C38: whatever its points, a rank that has left sample_sort has called
\* all_gather_into and then the 2 * size barriers, and no rank waits in a
\* collective while another rank has left sample_sort without calling it.
C38_SameCollectives ==
    \A r \in Ranks :
        /\ pc[r] \in {"panic", "unique_leaves"} => CollectivesCalled(r) = 1 + 2 * size
        /\ pc[r] \in {"all_gather", "barrier_points", "barrier_leaves"}
               => \A s \in Ranks : pc[s] # "panic"

\* The passes of the loop of complete_region over the working list, the last
\* one, which keeps every key, included.
RECURSIVE RegionLoopPasses(_, _, _)
RegionLoopPasses(a, b, working_list) ==
    LET ancestors_a == Range(find_ancestors(a))
        ancestors_b == Range(find_ancestors(b))
        kept == {w \in working_list :
                    less_than(a, w) /\ less_than(w, b) /\ w \notin ancestors_b}
        split == {w \in working_list \ kept : w \in ancestors_a \/ w \in ancestors_b}
        aux_list == kept \cup UNION {Range(find_children(w)) : w \in split}
    IN  IF Cardinality(kept) = Cardinality(working_list) THEN 1
        ELSE 1 + RegionLoopPasses(a, b, aux_list)

\* C39: for keys a < b, the parent of every key complete_region(a, b) returns
\* is an ancestor of a or of b, no eight returned keys are the children of
\* one key, and the loop ends within depth + 1 passes.
C39_RegionMinimal ==
    pc[0] = "returned" =>
        /\ \A i \in DOMAIN ret :
               find_parent(ret[i]) \in Range(find_ancestors(args[1]))
                                       \cup Range(find_ancestors(args[2]))
        /\ \A p \in TreeKeys :
               p[4] < depth => ~(Range(find_children(p)) \subseteq Range(ret))
        /\ RegionLoopPasses(args[1], args[2],
               Range(find_children(find_finest_common_ancestor(args[1], args[2]))))
               <= depth + 1

\* C39 witness: a region has been returned in which seven children of an
\* ancestor of a alone and seven children of an ancestor of b alone lie.
C39_Witness ==
    /\ pc[0] = "returned"
    /\ \E p \in Range(find_ancestors(args[1])) \ Range(find_ancestors(args[2])) :
           Cardinality(Range(find_children(p)) \cap Range(ret)) = 7
    /\ \E p \in Range(find_ancestors(args[2])) \ Range(find_ancestors(args[1])) :
           Cardinality(Range(find_children(p)) \cap Range(ret)) = 7


\* The block of every leaf is its key or an ancestor of it, and the blocks of
\* two leaves are the same key or have no cell in common.
BlocksDisjoint(leaves) ==
    /\ \A i \in DOMAIN leaves : CellContains(leaves[i].block, leaves[i].key)
    /\ \A i, j \in DOMAIN leaves :
           \/ leaves[i].block = leaves[j].block
           \/ /\ ~CellContains(leaves[i].block, leaves[j].block)
              /\ ~CellContains(leaves[j].block, leaves[i].block)

\* The places of the map at which a leaf of the key and npoints of l is held.
PlacesOf(m, l) ==
    {<<k, i>> \in UNION {{k} \X DOMAIN m[k] : k \in DOMAIN m} :
        m[k][i].key = l.key /\ m[k][i].npoints = l.npoints}

\* C40: split_blocks, called with leaves of distinct keys whose blocks are
\* ancestors-or-self and do not overlap, returns a map that holds every input
\* leaf once and nothing else, each leaf under the key that is its block
\* field and an ancestor-or-self of its key, with no key an ancestor of
\* another key and no key without leaves.
C40_SplitConservesLeaves ==
    (SplitReturned(0) /\ BlocksDisjoint(local_leaves[0])) =>
        /\ \A i \in DOMAIN local_leaves[0] :
               Cardinality(PlacesOf(blocks[0], local_leaves[0][i])) = 1
        /\ SumSeq([i \in DOMAIN local_leaves[0] |-> 1])
               = Cardinality(UNION {{k} \X DOMAIN blocks[0][k] : k \in DOMAIN blocks[0]})
        /\ \A k \in DOMAIN blocks[0] :
               /\ blocks[0][k] # <<>>
               /\ \A i \in DOMAIN blocks[0][k] :
                      /\ blocks[0][k][i].block = k
                      /\ CellContains(k, blocks[0][k][i].key)
               /\ \A o \in DOMAIN blocks[0] : o # k => ~CellContains(k, o)

\* C40 witness: split_blocks returned after a split, with two blocks in the
\* map and a leaf under a finer block than the one it came with.
C40_Witness ==
    /\ SplitReturned(0)
    /\ BlocksDisjoint(local_leaves[0])
    /\ niter[0] >= 1
    /\ Cardinality(DOMAIN blocks[0]) >= 2
    /\ \E i \in DOMAIN local_leaves[0] :
           local_leaves[0][i].block \notin DOMAIN blocks[0]

====
